---- MODULE Spec2Model ----
(***************************************************************************)
(* Stream Agency daemon (src/stream_agency.py): the scheduler tick (epoch  *)
(* snapshot, stream pass, billing pass), the admin operations and the      *)
(* SQLite store they share.                                                *)
(*                                                                         *)
(* Conventions.                                                            *)
(*  - A nullable column is <<>> (NULL) or <<v>> (the value v).             *)
(*  - Times are milliseconds, as in the code.                              *)
(*  - A text is a record [txt, len]: txt names the text, len is its length *)
(*    in characters; a slice s[:n] keeps txt and cuts len to n.            *)
(*  - fee_due_claw is kept in units of 1/10000 claw (the code's float is   *)
(*    reward * fee_bps / 10000.0; float rounding is not modelled).         *)
(*  - The columns created_ms, updated_ms and attempted_ms, which the code  *)
(*    writes (now_ms()) and never reads, are left out.                     *)
(*  - Enroll is enroll_agent as the CLI command calls it; the commands    *)
(*    with their checks and errors, and POST /enroll with its stream       *)
(*    probe (_enroll_via_api), are in the section on the Admin Surface.    *)
(*  - db is the store as the scheduler's connection sees it (its own       *)
(*    uncommitted writes included); committed is the store as every other  *)
(*    connection sees it. The scheduler here is the process of the `run`   *)
(*    and `tick` commands (run_forever, execute_tick); the API server, its *)
(*    handler threads and the scheduler thread it hosts are api and srv.   *)
(***************************************************************************)
EXTENDS Integers, Sequences, FiniteSets, TLC

VARIABLES
    db,              \* the four tables and the AUTOINCREMENT counter (connection view)
    committed,       \* the same, as of the last commit
    now,             \* the wall clock, now_ms()
    pc,              \* where the tick is: "idle", "stream", "bill"
    ts_ms,           \* process_due_agents: ts_ms
    chain_epoch,     \* execute_tick: chain_epoch (nullable)
    epoch_error,     \* execute_tick: epoch_error (nullable)
    due,             \* process_due_agents: the due_agents not yet processed
    candidates,      \* bill_closed_epochs: the candidates not yet processed
    billing_enabled, \* cfg.billing_enabled
    last,            \* the stream or settlement call of the step just taken
    admin_ops,       \* the pause, resume and remove requests made so far
    api,             \* the ticks of the POST /tick handler threads
    srv              \* run_api_server: its main thread and its scheduler thread

vars == <<db, committed, now, pc, ts_ms, chain_epoch, epoch_error, due,
          candidates, billing_enabled, last, admin_ops, api, srv>>

---------------------------------------------------------------------------
(* Bounds of the model. *)

MaxIds == 2            \* agent rows ever inserted
MaxAttempts == 2       \* stream attempts on record
MaxLadder == 4         \* the same, in the specification of the back-off ladder
MaxBilling == 2        \* billing attempts on record
MaxAdmin == 2          \* pause, resume and remove requests
MaxEvents == 4         \* attempts and billing attempts on record plus such requests
MaxHandlers == 2       \* handler threads of the API server that run a tick

(* Program constants. *)

lead_seconds == 360
jitter_seconds == 20
reward_per_window == 1
BodyKeep == 4000
ErrorKeep == 300

(* The stream service answers with an end instant Window ms after the call. *)
Window == 390000

---------------------------------------------------------------------------
(* Values *)

NULL == <<>>
Some(v) == <<v>>
Min(a, b) == IF a <= b THEN a ELSE b
Max(a, b) == IF a >= b THEN a ELSE b

Text(t, n) == [txt |-> t, len |-> n]
Slice(s, n) == [txt |-> s.txt, len |-> Min(s.len, n)]

(* An address is the sequence of its characters. *)
AddrA == <<"c", "l", "a", "w", "1", "a">>
AddrB == <<"c", "l", "a", "w", "1", "b">>
Addrs == {AddrA, AddrB}
Statuses == {"active", "paused", "suspended"}
Epochs == {1, 2}

(* The enroll requests made: (address, signature, fee_bps). *)
EnrollInputs ==
    { <<AddrA, <<"0", "x", "a">>, 500>>,
      <<AddrB, <<"b">>, 10000>> }

(* _normalize_signature: strip, then drop a leading 0x. *)
IsSpace(c) == c = " "
RECURSIVE LStrip(_)
LStrip(s) == IF s # <<>> /\ IsSpace(Head(s)) THEN LStrip(Tail(s)) ELSE s
RECURSIVE RStrip(_)
RStrip(s) ==
    IF s # <<>> /\ IsSpace(s[Len(s)]) THEN RStrip(SubSeq(s, 1, Len(s) - 1)) ELSE s
Strip(s) == RStrip(LStrip(s))

_normalize_signature(sig) ==
    LET s == Strip(sig)
    IN IF Len(s) >= 2 /\ s[1] = "0" /\ s[2] = "x" THEN SubSeq(s, 3, Len(s)) ELSE s

---------------------------------------------------------------------------
(* The store *)

EmptyDb ==
    [agents |-> <<>>,             \* id -> agent row
     seq |-> 0,                   \* sqlite_sequence of agents
     attempts |-> <<>>,           \* rows in insertion order
     usage_windows |-> <<>>,      \* <<agent_id, epoch>> -> row
     billing_attempts |-> <<>>]   \* rows in insertion order

AgentIds(d) == DOMAIN d.agents
UsageKeys(d) == DOMAIN d.usage_windows

IdOf(d, address) ==
    IF \E i \in AgentIds(d) : d.agents[i].address = address
    THEN Some(CHOOSE i \in AgentIds(d) : d.agents[i].address = address)
    ELSE NULL

(* A function with one more, or one changed, entry. *)
Put(f, k, v) == [x \in (DOMAIN f) \cup {k} |-> IF x = k THEN v ELSE f[x]]
Drop(f, ks) == [x \in (DOMAIN f) \ ks |-> f[x]]

RECURSIVE SelectRows(_, _)
SelectRows(rows, aid) ==
    IF rows = <<>> THEN <<>>
    ELSE IF Head(rows).agent_id = aid THEN SelectRows(Tail(rows), aid)
         ELSE <<Head(rows)>> \o SelectRows(Tail(rows), aid)

---------------------------------------------------------------------------
(* Admin operations *)

NewAgent(id, address, signature, fee_bps, ts) ==
    [id |-> id, address |-> address,
     stream_signature |-> _normalize_signature(signature),
     fee_bps |-> fee_bps, status |-> "active",
     expected_end_ms |-> NULL, next_attempt_ms |-> Some(ts),
     retry_step |-> 0, success_count |-> 0, failure_count |-> 0,
     fee_due_claw |-> 0, last_success_ms |-> NULL, last_error |-> NULL]

(* A variant: INSERT OR REPLACE, a row that exists is written anew *)
enroll_agent_replace(d, address, signature, fee_bps, ts) ==
    LET found == IdOf(d, Strip(address))
        id == IF found = NULL THEN d.seq + 1 ELSE found[1]
    IN [d EXCEPT !.agents = Put(@, id, NewAgent(id, Strip(address), signature, fee_bps, ts)),
                 !.seq = IF found = NULL THEN @ + 1 ELSE @]

(* enroll_agent: INSERT ... ON CONFLICT(address) DO UPDATE, with            *)
(* address.strip() as the address.                                         *)
enroll_agent(d, address, signature, fee_bps, ts) ==
    LET found == IdOf(d, Strip(address))
    IN IF found = NULL
       THEN [d EXCEPT !.agents = Put(@, d.seq + 1,
                          NewAgent(d.seq + 1, Strip(address), signature, fee_bps, ts)),
                      !.seq = @ + 1]
       ELSE [d EXCEPT !.agents[found[1]] =
                [@ EXCEPT !.stream_signature = _normalize_signature(signature),
                          !.fee_bps = fee_bps,
                          !.status = "active"]]

(* A variant: a row set to active is also made due at once *)
set_status_due(d, address, status, ts) ==
    LET found == IdOf(d, address)
    IN IF found = NULL THEN d
       ELSE [d EXCEPT !.agents[found[1]].status = status,
                      !.agents[found[1]].next_attempt_ms =
                          IF status = "active" THEN Some(ts) ELSE @]

(* set_status: UPDATE agents SET status, updated_ms WHERE address *)
set_status(d, address, status, ts) ==
    LET found == IdOf(d, address)
    IN IF found = NULL THEN d
       ELSE [d EXCEPT !.agents[found[1]].status = status]

(* A variant: the DELETE FROM attempts left out *)
remove_agent_keep_attempts(d, address) ==
    LET found == IdOf(d, address)
    IN IF found = NULL THEN d
       ELSE LET aid == found[1]
            IN [d EXCEPT
                  !.billing_attempts = SelectRows(@, aid),
                  !.usage_windows = Drop(@, {k \in DOMAIN @ : k[1] = aid}),
                  !.agents = Drop(@, {aid})]

(* remove_agent: the four DELETEs *)
remove_agent(d, address) ==
    LET found == IdOf(d, address)
    IN IF found = NULL THEN d
       ELSE LET aid == found[1]
            IN [d EXCEPT
                  !.billing_attempts = SelectRows(@, aid),
                  !.usage_windows = Drop(@, {k \in DOMAIN @ : k[1] = aid}),
                  !.attempts = SelectRows(@, aid),
                  !.agents = Drop(@, {aid})]

---------------------------------------------------------------------------
(* Stream Client *)

(* A JSON value of the response object, as far as the code tells them      *)
(* apart: a missing key (dict.get gives None), an integer, a non-empty      *)
(* string, and true or false (Python's True and False, which are ints 1    *)
(* and 0 to isinstance and to int()).                                      *)
Absent == [kind |-> "absent"]
JInt(n) == [kind |-> "int", v |-> n]
JStr == [kind |-> "str"]
JBool(b) == [kind |-> "bool", v |-> IF b THEN 1 ELSE 0]

Obj(a, b) == Some([end_stream |-> a, can_stream_again_at |-> b])

(* Python truthiness of a JSON value. *)
Truthy(x) ==
    CASE x.kind = "absent" -> FALSE
      [] x.kind = "int" -> x.v # 0
      [] x.kind = "bool" -> x.v # 0
      [] x.kind = "str" -> TRUE

(* a or b *)
PyOr(a, b) == IF Truthy(a) THEN a ELSE b

(* _extract_end_stream_ms *)
_extract_end_stream_ms(parsed) ==
    IF parsed = NULL
       \/ (parsed[1].end_stream = Absent /\ parsed[1].can_stream_again_at = Absent)
    THEN NULL
    ELSE LET value == PyOr(parsed[1].end_stream, parsed[1].can_stream_again_at)
         IN IF value.kind \in {"int", "bool"} THEN Some(value.v) ELSE NULL

(* if end_stream_ms: (None and 0 are false) *)
EndTruthy(end) == end # NULL /\ end[1] # 0

(* A response body: its text, its length, and whether its lower-cased text  *)
(* contains "already streaming".                                           *)
Body(t, n, a) == [txt |-> t, len |-> n, already |-> a]

(* What _post_stream returns: (ok, status_code, body, parsed).             *)
Resp(ok, code, body, parsed) ==
    [ok |-> ok, status_code |-> code, body |-> body, parsed |-> parsed]

(* The answers of the stream service to a call made at instant t. *)
Responses(t) ==
    { Resp(TRUE, 200, Body("end", 24, FALSE), Obj(JInt(t + Window), Absent)),
      Resp(TRUE, 200, Body("empty", 2, FALSE), Obj(Absent, Absent)),
      Resp(TRUE, 200, Body("zero", 26, FALSE), Obj(Absent, JInt(0))),
      Resp(FALSE, 403, Body("Already Streaming", 60, TRUE), Obj(JInt(t + Window), Absent)),
      Resp(FALSE, 403, Body("Already Streaming", 40, TRUE), Obj(Absent, Absent)),
      Resp(FALSE, 403, Body("Already Streaming", 62, TRUE), Obj(Absent, JInt(0))),
      Resp(FALSE, 403, Body("forbidden", 30, FALSE), Obj(JInt(t + Window), Absent)),
      Resp(FALSE, 500, Body("Already Streaming", 60, TRUE), Obj(JInt(t + Window), Absent)),
      Resp(FALSE, 0, Body("URLError", 301, FALSE), NULL) }

(* reason, lines 407-409 *)
Reason(r) ==
    IF ~r.ok /\ r.status_code = 403 /\ r.body.already THEN "already_streaming"
    ELSE IF r.ok THEN "ok" ELSE "error"

(* The draws of random.randint(0, max(0, jitter_seconds) * 1000): the two   *)
(* ends of its range.                                                      *)
JitterMax(jitter) == Max(0, jitter) * 1000
JitterDraws(jitter) == {0, JitterMax(jitter)}

(* A variant: the draw counted twice *)
_next_planned_attempt_twice_jitter(end_stream_ms, lead, jitter_ms) ==
    end_stream_ms - (lead * 1000) + 2 * jitter_ms

(* A variant: end_stream_ms + jitter_ms, the lead forgotten *)
_next_planned_attempt_no_lead(end_stream_ms, lead, jitter_ms) ==
    end_stream_ms + jitter_ms

(* A variant: the lead taken as milliseconds *)
_next_planned_attempt_lead_ms(end_stream_ms, lead, jitter_ms) ==
    end_stream_ms - lead + jitter_ms

(* _next_planned_attempt, with the draw jitter_ms *)
_next_planned_attempt(end_stream_ms, lead, jitter_ms) ==
    end_stream_ms - (lead * 1000) + jitter_ms

(* _fee_for_success, in 1/10000 claw *)
_fee_for_success(reward, fee_bps) == reward * fee_bps

delays == <<30, 60, 120>>

(* A variant: delays[idx] on every rung *)
_schedule_retry_last_delay(ts, retry_step) ==
    LET idx == Min(retry_step, Len(delays) - 1)
    IN <<ts + delays[idx + 1] * 1000, retry_step + 1>>

(* _schedule_retry *)
_schedule_retry(ts, retry_step) ==
    LET idx == Min(retry_step, Len(delays) - 1)
        delay == IF retry_step < Len(delays) THEN delays[idx + 1] ELSE 180
    IN <<ts + delay * 1000, retry_step + 1>>

(* The number of characters of str(status_code). *)
Digits(n) == IF n < 10 THEN 1 ELSE IF n < 100 THEN 2 ELSE 3

(* f"{status_code}: {body[:300]}" *)
AgentError(code, body) ==
    [txt |-> body.txt, code |-> code, len |-> Digits(code) + 2 + Min(body.len, ErrorKeep)]

---------------------------------------------------------------------------
(* Stream pass: the writes for one agent *)

(* _record_attempt *)
_record_attempt(d, aid, ok, status_code, reason, end_stream_ms, body, t) ==
    [d EXCEPT !.attempts = Append(@,
        [agent_id |-> aid, ok |-> IF ok THEN 1 ELSE 0,
         status_code |-> status_code, reason |-> reason,
         end_stream_ms |-> end_stream_ms,
         response_body |-> Text(body.txt, Min(body.len, BodyKeep))])]

(* A variant: INSERT OR REPLACE, windows = 1 *)
_increment_usage_window_replace(d, aid, epoch) ==
    [d EXCEPT !.usage_windows = Put(@, <<aid, epoch>>,
        [windows |-> 1, billed |-> FALSE, billed_at_ms |-> NULL, last_error |-> NULL])]

(* _increment_usage_window: INSERT ... ON CONFLICT DO UPDATE SET windows + 1 *)
_increment_usage_window(d, aid, epoch) ==
    LET k == <<aid, epoch>>
    IN IF k \in UsageKeys(d)
       THEN [d EXCEPT !.usage_windows[k].windows = @ + 1]
       ELSE [d EXCEPT !.usage_windows = Put(@, k,
                [windows |-> 1, billed |-> FALSE, billed_at_ms |-> NULL,
                 last_error |-> NULL])]

(* UPDATE agents ..., lines 416-431 *)
ApplyArmSuccess(d, aid, end, next_attempt, fee, ts) ==
    IF aid \notin AgentIds(d) THEN d
    ELSE [d EXCEPT !.agents[aid] =
            [@ EXCEPT !.expected_end_ms = Some(end),
                      !.next_attempt_ms = Some(next_attempt),
                      !.retry_step = 0,
                      !.success_count = @ + 1,
                      !.fee_due_claw = @ + fee,
                      !.last_success_ms = Some(ts),
                      !.last_error = NULL]]

(* UPDATE agents ..., lines 440-451 *)
ApplyReSync(d, aid, end, next_attempt, ts) ==
    IF aid \notin AgentIds(d) THEN d
    ELSE [d EXCEPT !.agents[aid] =
            [@ EXCEPT !.expected_end_ms = Some(end),
                      !.next_attempt_ms = Some(next_attempt),
                      !.retry_step = 0]]

(* A variant: failure_count left as it was *)
ApplyBackoffNoCount(d, aid, retry_at, next_retry_step, err, ts) ==
    IF aid \notin AgentIds(d) THEN d
    ELSE [d EXCEPT !.agents[aid] =
            [@ EXCEPT !.next_attempt_ms = Some(retry_at),
                      !.retry_step = next_retry_step,
                      !.last_error = Some(err)]]

(* UPDATE agents ..., lines 455-468 *)
ApplyBackoff(d, aid, retry_at, next_retry_step, err, ts) ==
    IF aid \notin AgentIds(d) THEN d
    ELSE [d EXCEPT !.agents[aid] =
            [@ EXCEPT !.next_attempt_ms = Some(retry_at),
                      !.retry_step = next_retry_step,
                      !.failure_count = @ + 1,
                      !.last_error = Some(err)]]

(* Which of the three branches of the loop body the answer r takes. *)
Outcome(r) ==
    LET end == _extract_end_stream_ms(r.parsed)
    IN IF r.ok /\ EndTruthy(end) THEN "ArmSuccess"
       ELSE IF Reason(r) = "already_streaming" /\ EndTruthy(end) THEN "ReSync"
       ELSE "Backoff"

(* A variant: the usage row of epoch 0 when the chain epoch is unknown     *)
(* (chain_epoch or 0).                                                     *)
ProcessAgentEpochZero(d, agent, r, jitter_ms, ts, epoch, t) ==
    LET aid == agent.id
        end == _extract_end_stream_ms(r.parsed)
        d1 == _record_attempt(d, aid, r.ok, r.status_code, Reason(r), end, r.body, t)
    IN CASE Outcome(r) = "ArmSuccess" ->
              LET fee == _fee_for_success(reward_per_window, agent.fee_bps)
                  next_attempt == _next_planned_attempt(end[1], lead_seconds, jitter_ms)
                  d2 == ApplyArmSuccess(d1, aid, end[1], next_attempt, fee, ts)
              IN _increment_usage_window(d2, aid, IF epoch # NULL THEN epoch[1] ELSE 0)
         [] Outcome(r) = "ReSync" ->
              LET next_attempt == _next_planned_attempt(end[1], lead_seconds, jitter_ms)
              IN ApplyReSync(d1, aid, end[1], next_attempt, ts)
         [] OTHER ->
              LET retry == _schedule_retry(ts, agent.retry_step)
              IN ApplyBackoff(d1, aid, retry[1], retry[2],
                              AgentError(r.status_code, r.body), ts)

(* The body of the loop of process_due_agents for the selected row agent,  *)
(* the answer r and the jitter draw jitter_ms (lines 397-469).             *)
ProcessAgent(d, agent, r, jitter_ms, ts, epoch, t) ==
    LET aid == agent.id
        end == _extract_end_stream_ms(r.parsed)
        d1 == _record_attempt(d, aid, r.ok, r.status_code, Reason(r), end, r.body, t)
    IN CASE Outcome(r) = "ArmSuccess" ->
              LET fee == _fee_for_success(reward_per_window, agent.fee_bps)
                  next_attempt == _next_planned_attempt(end[1], lead_seconds, jitter_ms)
                  d2 == ApplyArmSuccess(d1, aid, end[1], next_attempt, fee, ts)
              IN IF epoch # NULL THEN _increment_usage_window(d2, aid, epoch[1]) ELSE d2
         [] Outcome(r) = "ReSync" ->
              LET next_attempt == _next_planned_attempt(end[1], lead_seconds, jitter_ms)
              IN ApplyReSync(d1, aid, end[1], next_attempt, ts)
         [] OTHER ->
              LET retry == _schedule_retry(ts, agent.retry_step)
              IN ApplyBackoff(d1, aid, retry[1], retry[2],
                              AgentError(r.status_code, r.body), ts)

---------------------------------------------------------------------------
(* Billing pass *)

(* What subprocess.run returns: returncode, stdout, stderr. *)
Proc(rc, out, err) == [returncode |-> rc, stdout |-> out, stderr |-> err]

Settlements ==
    { Proc(0, Text("sent", 20), Text("", 0)),
      Proc(1, Text("sending", 7), Text("nonce too low", 13)),
      Proc(1, Text("trace", 4001), Text("", 0)),
      Proc(2, Text("", 0), Text("", 0)) }

(* A variant: (proc.stdout or proc.stderr or "billing failed")[:300] *)
BillingErrorStdoutFirst(p) ==
    Slice(IF p.stdout.len > 0 THEN p.stdout
          ELSE IF p.stderr.len > 0 THEN p.stderr
          ELSE Text("billing failed", 14), ErrorKeep)

(* (proc.stderr or proc.stdout or "billing failed")[:300] *)
BillingError(p) ==
    Slice(IF p.stderr.len > 0 THEN p.stderr
          ELSE IF p.stdout.len > 0 THEN p.stdout
          ELSE Text("billing failed", 14), ErrorKeep)

(* A variant of the candidates: WHERE ... uw.epoch <= ? *)
CandidateKeysUpTo(d, epoch) ==
    {k \in UsageKeys(d) :
        /\ ~d.usage_windows[k].billed
        /\ k[2] <= epoch
        /\ d.usage_windows[k].windows > 0
        /\ k[1] \in AgentIds(d)
        /\ d.agents[k[1]].status \in {"active", "paused", "suspended"}}

(* The candidates of bill_closed_epochs, as a set of keys (lines 510-524). *)
CandidateKeys(d, epoch) ==
    {k \in UsageKeys(d) :
        /\ ~d.usage_windows[k].billed
        /\ k[2] < epoch
        /\ d.usage_windows[k].windows > 0
        /\ k[1] \in AgentIds(d)
        /\ d.agents[k[1]].status \in {"active", "paused", "suspended"}}

(* ORDER BY uw.epoch ASC, uw.agent_id ASC *)
KeyBefore(a, b) == a[2] < b[2] \/ (a[2] = b[2] /\ a[1] < b[1])

RECURSIVE SortKeys(_)
SortKeys(S) ==
    IF S = {} THEN <<>>
    ELSE LET first == CHOOSE a \in S : \A b \in S \ {a} : KeyBefore(a, b)
         IN <<first>> \o SortKeys(S \ {first})

CandidateRow(d, k) ==
    [agent_id |-> k[1], epoch |-> k[2], windows |-> d.usage_windows[k].windows,
     address |-> d.agents[k[1]].address]

list_billing_candidates(d, epoch) ==
    LET keys == SortKeys(CandidateKeys(d, epoch))
    IN [i \in 1..Len(keys) |-> CandidateRow(d, keys[i])]

(* INSERT INTO billing_attempts, lines 537-552 *)
RecordBilling(d, row, p, t) ==
    [d EXCEPT !.billing_attempts = Append(@,
        [agent_id |-> row.agent_id, epoch |-> row.epoch, windows |-> row.windows,
         ok |-> IF p.returncode = 0 THEN 1 ELSE 0,
         return_code |-> p.returncode,
         stdout |-> Slice(p.stdout, BodyKeep), stderr |-> Slice(p.stderr, BodyKeep)])]

(* A variant: UPDATE usage_windows SET billed = 1, billed_at_ms = ? *)
MarkBilledKeepError(d, k, t) ==
    IF k \notin UsageKeys(d) THEN d
    ELSE [d EXCEPT !.usage_windows[k] =
            [@ EXCEPT !.billed = TRUE, !.billed_at_ms = Some(t)]]

(* UPDATE usage_windows SET billed = 1 ..., lines 555-562 *)
MarkBilled(d, k, t) ==
    IF k \notin UsageKeys(d) THEN d
    ELSE [d EXCEPT !.usage_windows[k] =
            [@ EXCEPT !.billed = TRUE, !.billed_at_ms = Some(t), !.last_error = NULL]]

(* UPDATE usage_windows SET last_error = ..., lines 565-572 *)
RecordBillingFailure(d, k, err) ==
    IF k \notin UsageKeys(d) THEN d
    ELSE [d EXCEPT !.usage_windows[k].last_error = Some(err)]

(* The body of the loop of bill_closed_epochs for the candidate row and the *)
(* settlement result p (lines 529-573).                                    *)
ProcessCandidate(d, row, p, t) ==
    LET k == <<row.agent_id, row.epoch>>
        d1 == RecordBilling(d, row, p, t)
    IN IF p.returncode = 0 THEN MarkBilled(d1, k, t)
       ELSE RecordBillingFailure(d1, k, BillingError(p))

---------------------------------------------------------------------------
(* The due agents *)

(* WHERE status = 'active' AND (next_attempt_ms IS NULL OR next_attempt_ms <= ?) *)
IsDue(a, t) ==
    a.status = "active" /\ (a.next_attempt_ms = NULL \/ a.next_attempt_ms[1] <= t)

DueIds(d, t) == {i \in AgentIds(d) : IsDue(d.agents[i], t)}

(* COALESCE(next_attempt_ms, 0) *)
DueKey(a) == IF a.next_attempt_ms = NULL THEN 0 ELSE a.next_attempt_ms[1]

(* The orders ORDER BY COALESCE(next_attempt_ms, 0) ASC allows: rows with    *)
(* equal keys come in either order.                                        *)
list_due_agents(d, t) ==
    LET S == DueIds(d, t)
        n == Cardinality(S)
    IN { [i \in 1..n |-> d.agents[f[i]]] :
           f \in {g \in [1..n -> S] :
                    /\ \A i, j \in 1..n : i # j => g[i] # g[j]
                    /\ \A i, j \in 1..n :
                          i < j => DueKey(d.agents[g[i]]) <= DueKey(d.agents[g[j]])} }

---------------------------------------------------------------------------
(* What last holds after a step that made no stream or settlement call.    *)
NoStep == [kind |-> "none"]

(* A handler thread of the API server that runs no tick: the locals of     *)
(* execute_tick on that thread, the store as its connection sees it while  *)
(* it holds a write transaction (db, with writing).                        *)
Handlers == 1..MaxHandlers

ApiIdle ==
    [pc |-> "idle", ts_ms |-> 0, chain_epoch |-> NULL, epoch_error |-> NULL,
     due |-> <<>>, candidates |-> <<>>, db |-> EmptyDb, writing |-> FALSE]

(* No API server runs. *)
NotServing == [main |-> "off", stop |-> FALSE, thread |-> "none", conn |-> "none"]

(* Initial state: a fresh database (init_db), no tick running, no API      *)
(* server running.                                                         *)

Init ==
    /\ db = EmptyDb
    /\ committed = EmptyDb
    /\ now = 0
    /\ pc = "idle"
    /\ ts_ms = 0
    /\ chain_epoch = NULL
    /\ epoch_error = NULL
    /\ due = <<>>
    /\ candidates = <<>>
    /\ billing_enabled \in BOOLEAN
    /\ last = NoStep
    /\ admin_ops = 0
    /\ api = [h \in Handlers |-> ApiIdle]
    /\ srv = NotServing

(* No write transaction of the scheduler's connection is open: another      *)
(* connection can write.                                                   *)
NoOpenWrite == db = committed

(* The clock reaches the next instant at which some agent's next attempt is *)
(* planned.                                                                *)
AdvanceClock ==
    /\ pc = "idle"
    /\ \E i \in AgentIds(db) :
          /\ db.agents[i].next_attempt_ms # NULL
          /\ db.agents[i].next_attempt_ms[1] > now
          /\ now' = db.agents[i].next_attempt_ms[1]
    /\ last' = NoStep
    /\ UNCHANGED <<db, committed, pc, ts_ms, chain_epoch, epoch_error, due,
                   candidates, billing_enabled, api, srv, admin_ops>>

(* CLI enroll / enroll_agent on a connection of its own. *)
Enroll(address, signature, fee_bps) ==
    /\ NoOpenWrite
    /\ IdOf(db, address) = NULL => db.seq < MaxIds
    /\ db' = enroll_agent(db, address, signature, fee_bps, now)
    /\ committed' = db'
    /\ last' = NoStep
    /\ UNCHANGED <<now, pc, ts_ms, chain_epoch, epoch_error, due, candidates,
                   billing_enabled, api, srv, admin_ops>>

(* pause / resume: set_status; raises "Agent not found" after the commit.  *)
SetStatus(address, status) ==
    /\ NoOpenWrite
    /\ admin_ops < MaxAdmin
    /\ Len(db.attempts) + Len(db.billing_attempts) + admin_ops < MaxEvents
    /\ db' = set_status(db, address, status, now)
    /\ admin_ops' = IF db' = db THEN admin_ops ELSE admin_ops + 1
    /\ committed' = db'
    /\ last' = NoStep
    /\ UNCHANGED <<now, pc, ts_ms, chain_epoch, epoch_error, due, candidates,
                   billing_enabled, api, srv>>

(* remove: remove_agent *)
Remove(address) ==
    /\ NoOpenWrite
    /\ admin_ops < MaxAdmin
    /\ Len(db.attempts) + Len(db.billing_attempts) + admin_ops < MaxEvents
    /\ db' = remove_agent(db, address)
    /\ admin_ops' = IF db' = db THEN admin_ops ELSE admin_ops + 1
    /\ committed' = db'
    /\ last' = NoStep
    /\ UNCHANGED <<now, pc, ts_ms, chain_epoch, epoch_error, due, candidates,
                   billing_enabled, api, srv>>

-------------------------------------------------------------------------------------------------------------------------------------------------
(* The tick: execute_tick *)

(* What get_chain_epoch gives: an epoch, or an exception (NULL). *)
OracleAnswers == {NULL} \cup {Some(e) : e \in Epochs}

(* execute_tick, lines 580-586, and process_due_agents, lines 381-394: the  *)
(* epoch snapshot (the Oracle is asked only when billing is enabled), ts_ms *)
(* and the list of due agents.                                             *)
TickBegin(answer, rows) ==
    /\ pc = "idle"
    /\ answer \in (IF billing_enabled THEN OracleAnswers ELSE {NULL})
    /\ rows \in list_due_agents(db, now)
    /\ chain_epoch' = answer
    /\ epoch_error' =
          IF billing_enabled /\ answer = NULL
          THEN Some(Text("Unable to fetch chain epoch", 27)) ELSE NULL
    /\ due' = rows
    /\ ts_ms' = now
    /\ pc' = "stream"
    /\ last' = NoStep
    /\ UNCHANGED <<db, committed, now, candidates, billing_enabled, api, srv, admin_ops>>

(* The rows a tick that starts with this answer and these due agents can    *)
(* add stay within the bounds.                                             *)
WithinBounds(answer, rows, cap) ==
    LET attempts == Len(db.attempts) + Len(rows)
        billing ==
           IF answer = NULL THEN Len(db.billing_attempts)
           ELSE Len(db.billing_attempts)
                  + Cardinality({k \in UsageKeys(db) :
                        ~db.usage_windows[k].billed /\ k[2] < answer[1]})
    IN  /\ attempts <= cap
        /\ billing <= MaxBilling
        /\ attempts + billing + admin_ops <= Max(cap, MaxEvents)

TickStart(cap) ==
    \E answer \in OracleAnswers, rows \in list_due_agents(db, now) :
        /\ WithinBounds(answer, rows, cap)
        /\ TickBegin(answer, rows)

(* The tick is over: execute_tick returns (or raises) and its locals go.   *)
TickOver ==
    /\ pc' = "idle"
    /\ ts_ms' = 0
    /\ chain_epoch' = NULL
    /\ epoch_error' = NULL
    /\ due' = <<>>
    /\ candidates' = <<>>
    /\ last' = NoStep

(* One turn of the loop of process_due_agents: the stream call for the next *)
(* due agent returns r, random.randint draws jitter_ms, and the attempt    *)
(* row, the agent row and the usage row are written (not yet committed).   *)
StreamStep(r, jitter_ms) ==
    /\ pc = "stream"
    /\ due # <<>>
    /\ Head(due).id \in AgentIds(db)
    /\ Outcome(r) = "Backoff" => jitter_ms = 0    \* no draw is made
    /\ db' = ProcessAgent(db, Head(due), r, jitter_ms, ts_ms, chain_epoch, now)
    /\ due' = Tail(due)
    /\ last' = [kind |-> "stream", before |-> db, agent |-> Head(due), r |-> r,
                jitter_ms |-> jitter_ms]
    /\ UNCHANGED <<committed, now, pc, ts_ms, chain_epoch, epoch_error,
                   candidates, billing_enabled, api, srv, admin_ops>>

(* The stream call is made and the turn raises: _post_stream itself raises  *)
(* (a 2xx body that is not JSON, a timeout while reading), or the agent    *)
(* row is gone and the INSERT into attempts fails its foreign key. The     *)
(* exception leaves the tick; the uncommitted writes are lost.             *)
StreamRaise ==
    /\ pc = "stream"
    /\ due # <<>>
    /\ db' = committed
    /\ TickOver
    /\ UNCHANGED <<committed, now, billing_enabled, api, srv, admin_ops>>

(* The end of process_due_agents (conn.commit()) and the start of          *)
(* bill_closed_epochs, lines 506-526.                                      *)
StreamCommit ==
    /\ pc = "stream"
    /\ due = <<>>
    /\ committed' = db
    /\ IF billing_enabled /\ chain_epoch # NULL
       THEN /\ candidates' = list_billing_candidates(db, chain_epoch[1])
            /\ pc' = "bill"
            /\ last' = NoStep
            /\ UNCHANGED <<ts_ms, chain_epoch, epoch_error, due>>
       ELSE TickOver
    /\ UNCHANGED <<db, now, billing_enabled, api, srv, admin_ops>>

(* One turn of the loop of bill_closed_epochs: the settlement tool returns  *)
(* p for the next candidate.                                               *)
BillStep(p) ==
    /\ pc = "bill"
    /\ candidates # <<>>
    /\ Head(candidates).agent_id \in AgentIds(db)
    /\ db' = ProcessCandidate(db, Head(candidates), p, now)
    /\ candidates' = Tail(candidates)
    /\ last' = [kind |-> "settle", before |-> db, row |-> Head(candidates), p |-> p]
    /\ UNCHANGED <<committed, now, pc, ts_ms, chain_epoch, epoch_error, due,
                   billing_enabled, api, srv, admin_ops>>

(* The settlement call is made and the turn raises: subprocess.run raises   *)
(* (the tool cannot be started), or the agent row is gone and the INSERT   *)
(* into billing_attempts fails its foreign key.                            *)
BillRaise ==
    /\ pc = "bill"
    /\ candidates # <<>>
    /\ db' = committed
    /\ TickOver
    /\ UNCHANGED <<committed, now, billing_enabled, api, srv, admin_ops>>

(* The end of bill_closed_epochs: conn.commit(). *)
BillCommit ==
    /\ pc = "bill"
    /\ candidates = <<>>
    /\ committed' = db
    /\ TickOver
    /\ UNCHANGED <<db, now, billing_enabled, api, srv, admin_ops>>

(* Crash, were the usage rows written before the attempt rows and the      *)
(* agent rows and kept by the crash.                                       *)
CrashKeepsUsage ==
    /\ pc # "idle"
    /\ db # committed
    /\ db' = [committed EXCEPT !.usage_windows = db.usage_windows]
    /\ committed' = db'
    /\ pc' = "idle"
    /\ ts_ms' = 0
    /\ chain_epoch' = NULL
    /\ epoch_error' = NULL
    /\ due' = <<>>
    /\ candidates' = <<>>
    /\ last' = [kind |-> "crash", before |-> db, pass |-> pc]
    /\ UNCHANGED <<now, billing_enabled, api, srv, admin_ops>>

(* The process dies during a tick that has written: the open transaction   *)
(* is rolled back, and the process that is started next finds the store as *)
(* of the last commit.                                                     *)
Crash ==
    /\ pc # "idle"
    /\ db # committed
    /\ db' = committed
    /\ pc' = "idle"
    /\ ts_ms' = 0
    /\ chain_epoch' = NULL
    /\ epoch_error' = NULL
    /\ due' = <<>>
    /\ candidates' = <<>>
    /\ last' = [kind |-> "crash", before |-> db, pass |-> pc]
    /\ UNCHANGED <<committed, now, billing_enabled, api, srv, admin_ops>>

Next ==
    \/ AdvanceClock
    \/ \E e \in EnrollInputs : Enroll(e[1], e[2], e[3])
    \/ \E a \in Addrs, st \in {"paused", "active"} : SetStatus(a, st)
    \/ \E a \in Addrs : Remove(a)
    \/ TickStart(MaxAttempts)
    \/ \E r \in Responses(now), j \in JitterDraws(jitter_seconds) : StreamStep(r, j)
    \/ StreamRaise
    \/ StreamCommit
    \/ \E p \in Settlements : BillStep(p)
    \/ BillRaise
    \/ BillCommit
    \/ Crash

Spec == Init /\ [][Next]_vars

---------------------------------------------------------------------------
(* One agent, billing disabled, and a longer attempt log: the back-off      *)
(* ladder of _schedule_retry up to its last rung.                          *)

InitLadder == Init /\ ~billing_enabled

NextLadder ==
    \/ AdvanceClock
    \/ \E e \in EnrollInputs : e[1] = AddrA /\ Enroll(e[1], e[2], e[3])
    \/ TickStart(MaxLadder)
    \/ \E r \in Responses(now), j \in JitterDraws(jitter_seconds) : StreamStep(r, j)
    \/ StreamRaise
    \/ StreamCommit

SpecLadder == InitLadder /\ [][NextLadder]_vars

---------------------------------------------------------------------------
(* The driver loop under fairness (run_forever, lines 1042-1061), started   *)
(* again whenever a tick has raised out of it: ticks keep running, every   *)
(* call that is started returns or raises, the                             *)
(* Epoch Oracle answers the newest epoch again and again and the settlement *)
(* tool exits 0 again and again. The clock stands still, so that every     *)
(* agent is due once; the settlement tool fails at most MaxBilling times.  *)

InitLive == Init /\ billing_enabled

TopEpoch == CHOOSE e \in Epochs : \A f \in Epochs : f <= e

TickLive == \E answer \in OracleAnswers, rows \in list_due_agents(db, now) :
                TickBegin(answer, rows)

TickTop == \E rows \in list_due_agents(db, now) : TickBegin(Some(TopEpoch), rows)

StreamTurn ==
    \/ \E r \in Responses(now), j \in JitterDraws(jitter_seconds) : StreamStep(r, j)
    \/ StreamRaise

BillStepLive(p) ==
    /\ p.returncode # 0 => Len(db.billing_attempts) < MaxBilling
    /\ BillStep(p)

BillPaid == \E p \in Settlements : p.returncode = 0 /\ BillStep(p)

BillTurn ==
    \/ \E p \in Settlements : BillStepLive(p)
    \/ BillRaise

NextLive ==
    \/ \E e \in EnrollInputs : Enroll(e[1], e[2], e[3])
    \/ TickLive
    \/ StreamTurn
    \/ StreamCommit
    \/ BillTurn
    \/ BillCommit

Fairness ==
    /\ WF_vars(TickLive)
    /\ WF_vars(StreamTurn)
    /\ WF_vars(StreamCommit)
    /\ WF_vars(BillTurn)
    /\ WF_vars(BillCommit)
    /\ SF_vars(TickTop)
    /\ SF_vars(BillPaid)

LiveSpec == InitLive /\ [][NextLive]_vars /\ Fairness

(* The same loop when no stream call and no settlement call raises.        *)
StreamReturns ==
    \E r \in Responses(now), j \in JitterDraws(jitter_seconds) : StreamStep(r, j)

BillReturns == \E p \in Settlements : BillStepLive(p)

NextReturning ==
    \/ \E e \in EnrollInputs : Enroll(e[1], e[2], e[3])
    \/ TickLive
    \/ StreamReturns
    \/ StreamCommit
    \/ BillReturns
    \/ BillCommit

FairnessReturning ==
    /\ WF_vars(TickLive)
    /\ WF_vars(StreamReturns)
    /\ WF_vars(StreamCommit)
    /\ WF_vars(BillReturns)
    /\ WF_vars(BillCommit)
    /\ SF_vars(TickTop)
    /\ SF_vars(BillPaid)

LiveSpecReturning == InitLive /\ [][NextReturning]_vars /\ FairnessReturning

---------------------------------------------------------------------------
(* The API server (run_api_server): a ThreadingHTTPServer whose handler     *)
(* threads each open a connection of their own (POST /tick runs            *)
(* execute_tick on it), and the scheduler thread it hosts.                 *)
(*                                                                         *)
(* One connection at a time holds the write lock of the database, from its *)
(* first write to its commit or rollback; a connection without an open     *)
(* write transaction reads the committed store. In this part no tick runs  *)
(* on the first connection, so db follows committed.                       *)

(* The store as the connection of handler thread h sees it. *)
View(h) == IF api[h].writing THEN api[h].db ELSE committed

(* The write lock is free for h, or h holds it. *)
CanWrite(h) ==
    \/ api[h].writing
    \/ (db = committed /\ \A g \in Handlers \ {h} : ~api[g].writing)

NoApiWrite == \A h \in Handlers : ~api[h].writing

(* The billing-attempt rows a tick that starts now can add stay within the  *)
(* bound.                                                                  *)
ApiWithinBounds(answer) ==
    answer # NULL =>
        Len(committed.billing_attempts)
          + Cardinality({k \in UsageKeys(committed) :
                ~committed.usage_windows[k].billed /\ k[2] < answer[1]})
          <= MaxBilling

(* run_api_server, lines 997-1012: the server starts, with or without the  *)
(* scheduler thread; the scheduler's connection is opened by the main      *)
(* thread.                                                                 *)
ServerStart(with_scheduler) ==
    /\ srv.main = "off"
    /\ srv' = [main |-> "serving", stop |-> FALSE,
               thread |-> IF with_scheduler THEN "loop" ELSE "none",
               conn |-> IF with_scheduler THEN "open" ELSE "none"]
    /\ last' = NoStep
    /\ UNCHANGED <<db, committed, now, pc, ts_ms, chain_epoch, epoch_error, due,
                   candidates, billing_enabled, admin_ops, api>>

(* CLI enroll from another process, while no handler holds the write lock. *)
EnrollBeside(address, signature, fee_bps) ==
    /\ NoApiWrite
    /\ Enroll(address, signature, fee_bps)

(* POST /tick, lines 952-954: execute_tick starts on handler thread h      *)
(* (lines 580-586 and 381-394).                                            *)
ApiTickBegin(h, answer, rows) ==
    /\ srv.main = "serving"
    /\ api[h].pc = "idle"
    /\ answer \in (IF billing_enabled THEN OracleAnswers ELSE {NULL})
    /\ rows \in list_due_agents(committed, now)
    /\ ApiWithinBounds(answer)
    /\ api' = [api EXCEPT ![h] =
                 [pc |-> "stream", ts_ms |-> now, chain_epoch |-> answer,
                  epoch_error |->
                     IF billing_enabled /\ answer = NULL
                     THEN Some(Text("Unable to fetch chain epoch", 27)) ELSE NULL,
                  due |-> rows, candidates |-> <<>>, db |-> EmptyDb,
                  writing |-> FALSE]]
    /\ last' = NoStep
    /\ UNCHANGED <<db, committed, now, pc, ts_ms, chain_epoch, epoch_error, due,
                   candidates, billing_enabled, admin_ops, srv>>

(* One turn of the loop of process_due_agents on handler thread h. *)
ApiStreamStep(h, r, jitter_ms) ==
    /\ api[h].pc = "stream"
    /\ api[h].due # <<>>
    /\ CanWrite(h)
    /\ Head(api[h].due).id \in AgentIds(View(h))
    /\ Outcome(r) = "Backoff" => jitter_ms = 0
    /\ api' = [api EXCEPT
                 ![h].db = ProcessAgent(View(h), Head(api[h].due), r, jitter_ms,
                                        api[h].ts_ms, api[h].chain_epoch, now),
                 ![h].writing = TRUE,
                 ![h].due = Tail(@)]
    /\ last' = NoStep
    /\ UNCHANGED <<db, committed, now, pc, ts_ms, chain_epoch, epoch_error, due,
                   candidates, billing_enabled, admin_ops, srv>>

(* The turn raises (as StreamRaise, or "database is locked" after 30 s of   *)
(* waiting for the write lock): the with block rolls back, do_POST answers *)
(* 400 (lines 959-960).                                                    *)
ApiStreamRaise(h) ==
    /\ api[h].pc = "stream"
    /\ api[h].due # <<>>
    /\ api' = [api EXCEPT ![h] = ApiIdle]
    /\ last' = NoStep
    /\ UNCHANGED <<db, committed, now, pc, ts_ms, chain_epoch, epoch_error, due,
                   candidates, billing_enabled, admin_ops, srv>>

(* conn.commit() at line 471 on handler thread h, then lines 506-526. *)
ApiStreamCommit(h) ==
    /\ api[h].pc = "stream"
    /\ api[h].due = <<>>
    /\ committed' = View(h)
    /\ db' = View(h)
    /\ api' = [api EXCEPT ![h] =
                 IF billing_enabled /\ api[h].chain_epoch # NULL
                 THEN [@ EXCEPT !.pc = "bill",
                                !.candidates =
                                    list_billing_candidates(View(h), api[h].chain_epoch[1]),
                                !.db = EmptyDb,
                                !.writing = FALSE]
                 ELSE ApiIdle]
    /\ last' = NoStep
    /\ UNCHANGED <<now, pc, ts_ms, chain_epoch, epoch_error, due,
                   candidates, billing_enabled, admin_ops, srv>>

(* One turn of the loop of bill_closed_epochs on handler thread h. *)
ApiBillStep(h, p) ==
    /\ api[h].pc = "bill"
    /\ api[h].candidates # <<>>
    /\ CanWrite(h)
    /\ Head(api[h].candidates).agent_id \in AgentIds(View(h))
    /\ api' = [api EXCEPT
                 ![h].db = ProcessCandidate(View(h), Head(api[h].candidates), p, now),
                 ![h].writing = TRUE,
                 ![h].candidates = Tail(@)]
    /\ last' = NoStep
    /\ UNCHANGED <<db, committed, now, pc, ts_ms, chain_epoch, epoch_error, due,
                   candidates, billing_enabled, admin_ops, srv>>

ApiBillRaise(h) ==
    /\ api[h].pc = "bill"
    /\ api[h].candidates # <<>>
    /\ api' = [api EXCEPT ![h] = ApiIdle]
    /\ last' = NoStep
    /\ UNCHANGED <<db, committed, now, pc, ts_ms, chain_epoch, epoch_error, due,
                   candidates, billing_enabled, admin_ops, srv>>

(* conn.commit() at line 575 on handler thread h; execute_tick returns. *)
ApiBillCommit(h) ==
    /\ api[h].pc = "bill"
    /\ api[h].candidates = <<>>
    /\ committed' = View(h)
    /\ db' = View(h)
    /\ api' = [api EXCEPT ![h] = ApiIdle]
    /\ last' = NoStep
    /\ UNCHANGED <<now, pc, ts_ms, chain_epoch, epoch_error, due,
                   candidates, billing_enabled, admin_ops, srv>>

(* run_scheduler_loop, line 973: the stop signal is tested between ticks;  *)
(* the loop returns, or its next tick starts (line 974).                   *)
LoopCheck ==
    /\ srv.thread = "loop"
    /\ srv' = [srv EXCEPT !.thread = IF srv.stop THEN "returned" ELSE "tick"]
    /\ last' = NoStep
    /\ UNCHANGED <<db, committed, now, pc, ts_ms, chain_epoch, epoch_error, due,
                   candidates, billing_enabled, admin_ops, api>>

(* The tick of the scheduler thread: execute_tick asks the Epoch Oracle    *)
(* (billing enabled), then process_due_agents runs conn.execute (line 383) *)
(* on the connection that the main thread opened (line 1005, with          *)
(* check_same_thread at its default): sqlite3 raises ProgrammingError, the *)
(* exception leaves run_scheduler_loop and the thread ends.                *)
HostedTickRaises ==
    /\ srv.thread = "tick"
    /\ srv' = [srv EXCEPT !.thread = "dead"]
    /\ last' = NoStep
    /\ UNCHANGED <<db, committed, now, pc, ts_ms, chain_epoch, epoch_error, due,
                   candidates, billing_enabled, admin_ops, api>>

(* Lines 1020-1027: serve_forever is interrupted; the server stops taking  *)
(* requests and the stop signal is set.                                    *)
ServerStop ==
    /\ srv.main = "serving"
    /\ srv' = [srv EXCEPT !.main = "joining", !.stop = TRUE]
    /\ last' = NoStep
    /\ UNCHANGED <<db, committed, now, pc, ts_ms, chain_epoch, epoch_error, due,
                   candidates, billing_enabled, admin_ops, api>>

(* Lines 1028-1029: join(timeout=3) returns, the scheduler thread ended or *)
(* not.                                                                    *)
Join ==
    /\ srv.main = "joining"
    /\ srv' = [srv EXCEPT !.main = "closing"]
    /\ last' = NoStep
    /\ UNCHANGED <<db, committed, now, pc, ts_ms, chain_epoch, epoch_error, due,
                   candidates, billing_enabled, admin_ops, api>>

(* Lines 1030-1031 and the return of main: the scheduler's connection is   *)
(* closed and the process exits; its daemon threads (line 999, line 1010)  *)
(* end where they are and their open transactions are rolled back.         *)
CloseAndExit ==
    /\ srv.main = "closing"
    /\ srv' = [srv EXCEPT
                 !.main = "exited",
                 !.conn = IF @ = "open" THEN "closed" ELSE @,
                 !.thread = IF @ = "tick" THEN "killed in tick"
                            ELSE IF @ = "loop" THEN "killed in wait" ELSE @]
    /\ api' = [h \in Handlers |-> ApiIdle]
    /\ last' = NoStep
    /\ UNCHANGED <<db, committed, now, pc, ts_ms, chain_epoch, epoch_error, due,
                   candidates, billing_enabled, admin_ops>>

(* The ticks of a serving API server: one agent, two handler threads and    *)
(* the scheduler thread.                                                   *)
NextApi ==
    \/ \E e \in EnrollInputs : e[1] = AddrA /\ EnrollBeside(e[1], e[2], e[3])
    \/ \E w \in BOOLEAN : ServerStart(w)
    \/ \E h \in Handlers, answer \in OracleAnswers, rows \in list_due_agents(committed, now) :
          ApiTickBegin(h, answer, rows)
    \/ \E h \in Handlers, r \in Responses(now), j \in JitterDraws(jitter_seconds) :
          ApiStreamStep(h, r, j)
    \/ \E h \in Handlers : ApiStreamRaise(h)
    \/ \E h \in Handlers : ApiStreamCommit(h)
    \/ \E h \in Handlers, p \in Settlements : ApiBillStep(h, p)
    \/ \E h \in Handlers : ApiBillRaise(h)
    \/ \E h \in Handlers : ApiBillCommit(h)
    \/ LoopCheck
    \/ HostedTickRaises

SpecApi == Init /\ [][NextApi]_vars

(* The life of the server process, from its start to its exit. *)
NextServer ==
    \/ \E e \in EnrollInputs : EnrollBeside(e[1], e[2], e[3])
    \/ \E w \in BOOLEAN : ServerStart(w)
    \/ LoopCheck
    \/ HostedTickRaises
    \/ ServerStop
    \/ Join
    \/ CloseAndExit

SpecServer == Init /\ [][NextServer]_vars

---------------------------------------------------------------------------
(* Properties *)

(* The step just taken was a turn of the stream loop, or of the billing    *)
(* loop; last.before is the store before it and db the store after it.     *)
StreamActed == last.kind = "stream"
SettleActed == last.kind = "settle"

(* The end instant extracted from an answer, and the two answers the       *)
(* specification names by it.                                              *)
EndOf(r) == _extract_end_stream_ms(r.parsed)
OkWithEnd(r) == r.ok /\ EndOf(r) # NULL
AlreadyWithEnd(r) == r.status_code = 403 /\ r.body.already /\ EndOf(r) # NULL

WindowsOf(d, k) == IF k \in UsageKeys(d) THEN d.usage_windows[k].windows ELSE 0

SameWindows(before, after, keys) ==
    \A j \in keys :
        j \in UsageKeys(after) /\ after.usage_windows[j].windows = before.usage_windows[j].windows

(* C1: a stream call that is ok with an end_stream_ms, processed while the  *)
(* chain epoch is known, raises windows of (agent, chain_epoch) by exactly  *)
(* one, creating the row unbilled with windows = 1 when it is missing; any  *)
(* other outcome leaves the windows of every usage row as they were.       *)
C1_ArmSuccessAddsOneWindow ==
    StreamActed =>
        IF OkWithEnd(last.r) /\ chain_epoch # NULL
        THEN LET k == <<last.agent.id, chain_epoch[1]>>
             IN /\ k \in UsageKeys(db)
                /\ db.usage_windows[k].windows = WindowsOf(last.before, k) + 1
                /\ k \notin UsageKeys(last.before) => ~db.usage_windows[k].billed
                /\ UsageKeys(db) = UsageKeys(last.before) \cup {k}
                /\ SameWindows(last.before, db, UsageKeys(last.before) \ {k})
        ELSE /\ UsageKeys(db) = UsageKeys(last.before)
             /\ SameWindows(last.before, db, UsageKeys(last.before))

(* C2: once a usage row is billed, no later commit changes its windows,     *)
(* billed, billed_at_ms or last_error, whatever epochs the Oracle returns. *)
C2_BilledRowFrozen ==
    [][\A k \in UsageKeys(committed) :
          (committed.usage_windows[k].billed /\ k \in UsageKeys(committed'))
             => committed'.usage_windows[k] = committed.usage_windows[k]]_vars

(* C3: every settlement call of a tick, and every billing-attempt row it    *)
(* writes, is for a usage row whose epoch is below the chain epoch the     *)
(* Oracle returned at the start of that tick.                              *)
C3_SettlesClosedEpochsOnly ==
    /\ pc = "bill" =>
          /\ chain_epoch # NULL
          /\ \A i \in 1..Len(candidates) : candidates[i].epoch < chain_epoch[1]
    /\ SettleActed =>
          LET n == Len(db.billing_attempts)
          IN /\ chain_epoch # NULL
             /\ last.row.epoch < chain_epoch[1]
             /\ n = Len(last.before.billing_attempts) + 1
             /\ db.billing_attempts[n].epoch = last.row.epoch
             /\ db.billing_attempts[n].agent_id = last.row.agent_id
    /\ Len(db.billing_attempts) > Len(committed.billing_attempts) =>
          /\ pc = "bill" /\ chain_epoch # NULL
          /\ \A i \in (Len(committed.billing_attempts) + 1)..Len(db.billing_attempts) :
                db.billing_attempts[i].epoch < chain_epoch[1]

(* A settlement call was made while an unbilled row of the current epoch    *)
(* (or a later one) is in the store.                                       *)
C3_Witness ==
    /\ SettleActed
    /\ \E k \in UsageKeys(db) : k[2] >= chain_epoch[1] /\ ~db.usage_windows[k].billed

(* C4: a turn of the billing loop sets billed, billed_at_ms and a null      *)
(* last_error on its candidate exactly when the settlement call exits 0,   *)
(* and leaves every other usage row, and the windows of every row, as they *)
(* were.                                                                   *)
C4_BilledExactlyOnExitZero ==
    SettleActed =>
        LET k == <<last.row.agent_id, last.row.epoch>>
            before == last.before.usage_windows
            after == db.usage_windows
        IN /\ DOMAIN after = DOMAIN before
           /\ k \in DOMAIN before
           /\ \A j \in DOMAIN before : after[j].windows = before[j].windows
           /\ \A j \in DOMAIN before \ {k} : after[j] = before[j]
           /\ ~before[k].billed
           /\ IF last.p.returncode = 0
              THEN /\ after[k].billed
                   /\ after[k].billed_at_ms = Some(now)
                   /\ after[k].last_error = NULL
              ELSE /\ ~after[k].billed
                   /\ after[k].billed_at_ms = before[k].billed_at_ms

(* A settlement call exits 0 for a row that carries the error of an earlier *)
(* failure, while an unbilled row of the current epoch is in the store.    *)
C4_Witness ==
    /\ SettleActed
    /\ last.p.returncode = 0
    /\ last.before.usage_windows[<<last.row.agent_id, last.row.epoch>>].last_error # NULL
    /\ \E k \in UsageKeys(db) : k[2] = chain_epoch[1] /\ ~db.usage_windows[k].billed

(* What a failed settlement call leaves, but for last_error. *)
FailedSettlement(errorText) ==
    SettleActed /\ last.p.returncode # 0 =>
        LET k == <<last.row.agent_id, last.row.epoch>>
            n == Len(db.billing_attempts)
        IN /\ k \in UsageKeys(db)
           /\ ~db.usage_windows[k].billed
           /\ db.usage_windows[k].windows = last.before.usage_windows[k].windows
           /\ db.usage_windows[k].last_error = Some(Slice(errorText, 300))
           /\ db.usage_windows[k].last_error[1].len <= 300
           /\ n = Len(last.before.billing_attempts) + 1
           /\ db.billing_attempts[n].ok = 0
           /\ db.billing_attempts[n].return_code = last.p.returncode
           /\ db.billing_attempts[n].agent_id = last.row.agent_id
           /\ db.billing_attempts[n].epoch = last.row.epoch
           /\ pc = "bill"

(* C5 as stated: after a non-zero exit the row stays unbilled with its      *)
(* windows, last_error is stderr if non-empty, else stdout, cut to 300     *)
(* characters, a billing-attempt row with ok = 0 and the return code is    *)
(* appended, and the pass goes on with the next candidate.                 *)
C5_AsStated ==
    FailedSettlement(IF last.p.stderr.len > 0 THEN last.p.stderr ELSE last.p.stdout)

(* C5, amended: the same, with last_error the text "billing failed" when    *)
(* stderr and stdout are both empty.                                       *)
C5_FailureRecorded ==
    FailedSettlement(IF last.p.stderr.len > 0 THEN last.p.stderr
                     ELSE IF last.p.stdout.len > 0 THEN last.p.stdout
                     ELSE Text("billing failed", 14))

(* A settlement call has failed with nothing on stderr and stdout, and the  *)
(* call for the next candidate of the same pass has failed too.            *)
C5_Witness ==
    LET n == Len(db.billing_attempts)
    IN /\ SettleActed
       /\ last.p.returncode # 0
       /\ n = Len(committed.billing_attempts) + 2
       /\ db.billing_attempts[n - 1].ok = 0
       /\ db.billing_attempts[n - 1].stderr.len = 0
       /\ db.billing_attempts[n - 1].stdout.len = 0

(* An unbilled usage row of a closed epoch, in the committed store.        *)
ClosedUnbilled(k) ==
    /\ k \in UsageKeys(committed)
    /\ ~committed.usage_windows[k].billed
    /\ committed.usage_windows[k].windows > 0
    /\ k[2] < TopEpoch

Settled(k) ==
    k \in UsageKeys(committed) => committed.usage_windows[k].billed

(* C6: an unbilled usage row with windows > 0 of a closed epoch is          *)
(* eventually marked billed (or its agent is removed), when ticks keep     *)
(* running and the Epoch Oracle and the settlement tool succeed again and  *)
(* again.                                                                  *)
C6_EventuallyBilled ==
    \A k \in (1..MaxIds) \X Epochs : ClosedUnbilled(k) ~> Settled(k)

(* LiveSpec violates C6_EventuallyBilled: a stream call that raises ends    *)
(* the tick before its billing pass, tick after tick. LiveSpecReturning    *)
(* satisfies it.                                                           *)

(* The range of next_attempt_ms planned from the end instant e.            *)
InRange(next, e) ==
    /\ next # NULL
    /\ e - lead_seconds * 1000 <= next[1]
    /\ next[1] <= e - lead_seconds * 1000 + jitter_seconds * 1000

AgentBefore == last.before.agents[last.agent.id]
AgentAfter == db.agents[last.agent.id]

(* C7: a stream call that is ok with end_stream_ms = e sets expected_end_ms *)
(* = e, next_attempt_ms within [e - lead*1000, e - lead*1000 + jitter*1000], *)
(* retry_step = 0, success_count + 1, fee_due_claw + reward*fee_bps/10000, *)
(* keeps failure_count and, with the chain epoch known, adds one window to *)
(* (agent, chain_epoch); e = 2000000, lead 360, jitter 0, fee_bps 500 and  *)
(* reward 1 give next_attempt_ms = 1640000 and a fee of 0.05 (500/10000).  *)
C7_ArmSuccessUpdate ==
    /\ _next_planned_attempt(2000000, 360, 0) = 1640000
    /\ JitterDraws(0) = {0}
    /\ _fee_for_success(1, 500) = 500
    /\ (StreamActed /\ OkWithEnd(last.r)) =>
          LET e == EndOf(last.r)[1]
              k == <<last.agent.id, chain_epoch[1]>>
          IN /\ AgentAfter.expected_end_ms = Some(e)
             /\ InRange(AgentAfter.next_attempt_ms, e)
             /\ AgentAfter.retry_step = 0
             /\ AgentAfter.success_count = AgentBefore.success_count + 1
             /\ AgentAfter.fee_due_claw =
                   AgentBefore.fee_due_claw + reward_per_window * AgentBefore.fee_bps
             /\ AgentAfter.failure_count = AgentBefore.failure_count
             /\ chain_epoch # NULL =>
                   WindowsOf(db, k) = WindowsOf(last.before, k) + 1

(* C8: a 403 answer whose body contains "already streaming", with           *)
(* end_stream_ms = e, sets expected_end_ms = e, plans next_attempt_ms from *)
(* e, sets retry_step = 0 and keeps success_count, failure_count,          *)
(* fee_due_claw, last_success_ms and every usage row.                      *)
C8_ReSyncUpdate ==
    (StreamActed /\ AlreadyWithEnd(last.r)) =>
        LET e == EndOf(last.r)[1]
        IN /\ AgentAfter.expected_end_ms = Some(e)
           /\ InRange(AgentAfter.next_attempt_ms, e)
           /\ AgentAfter.retry_step = 0
           /\ AgentAfter.success_count = AgentBefore.success_count
           /\ AgentAfter.failure_count = AgentBefore.failure_count
           /\ AgentAfter.fee_due_claw = AgentBefore.fee_due_claw
           /\ AgentAfter.last_success_ms = AgentBefore.last_success_ms
           /\ db.usage_windows = last.before.usage_windows

(* The ladder of delays, in seconds. *)
LadderDelay(k) == IF k = 0 THEN 30 ELSE IF k = 1 THEN 60 ELSE IF k = 2 THEN 120 ELSE 180

(* C9: every answer that is neither ok with an end_stream_ms nor already    *)
(* streaming with an end_stream_ms is followed by Backoff: next_attempt_ms *)
(* = tick timestamp + d(retry_step), retry_step + 1, failure_count + 1,    *)
(* with expected_end_ms, success_count and fee_due_claw kept; an agent     *)
(* that has failed three times in a row from retry_step 0 has retry_step = *)
(* 3 and failure_count = 3, its attempts 30 s, 60 s and 120 s apart.       *)
C9_Backoff ==
    /\ (StreamActed /\ ~OkWithEnd(last.r) /\ ~AlreadyWithEnd(last.r)) =>
          /\ AgentAfter.next_attempt_ms =
                Some(ts_ms + LadderDelay(AgentBefore.retry_step) * 1000)
          /\ AgentAfter.retry_step = AgentBefore.retry_step + 1
          /\ AgentAfter.failure_count = AgentBefore.failure_count + 1
          /\ AgentAfter.expected_end_ms = AgentBefore.expected_end_ms
          /\ AgentAfter.success_count = AgentBefore.success_count
          /\ AgentAfter.fee_due_claw = AgentBefore.fee_due_claw
    /\ \A i \in AgentIds(db) :
          (Len(db.attempts) = 3 /\ \A n \in 1..3 : db.attempts[n].end_stream_ms = NULL) =>
              /\ db.agents[i].retry_step = 3
              /\ db.agents[i].failure_count = 3
              /\ db.agents[i].next_attempt_ms = Some((30 + 60 + 120) * 1000)

(* A fourth failure in a row: the last rung of the ladder.                 *)
C9_Witness ==
    /\ StreamActed
    /\ ~OkWithEnd(last.r) /\ ~AlreadyWithEnd(last.r)
    /\ AgentBefore.retry_step = 3
    /\ AgentBefore.failure_count = 3
    /\ AgentAfter.retry_step = 4

(* C10 as stated: an agent whose expected_end_ms is e has next_attempt_ms   *)
(* within [e - lead*1000, e - lead*1000 + jitter*1000], in every reachable *)
(* state.                                                                  *)
C10_AsStated ==
    \A i \in AgentIds(db) :
        db.agents[i].expected_end_ms # NULL =>
            InRange(db.agents[i].next_attempt_ms, db.agents[i].expected_end_ms[1])

PlannedFromEnd(store) ==
    \A i \in AgentIds(store) :
        (store.agents[i].expected_end_ms # NULL /\ store.agents[i].retry_step = 0) =>
            InRange(store.agents[i].next_attempt_ms, store.agents[i].expected_end_ms[1])

(* C10, amended: an agent whose expected_end_ms is e and whose retry_step   *)
(* is 0 has next_attempt_ms within that range, in the scheduler's view and *)
(* in the committed store; a stream step that writes expected_end_ms = e   *)
(* (ArmSuccess, ReSync) plans next_attempt_ms in the range, and a Backoff  *)
(* keeps expected_end_ms while it moves next_attempt_ms.                   *)
C10_PlannedFromEnd ==
    /\ PlannedFromEnd(db)
    /\ PlannedFromEnd(committed)
    /\ StreamActed =>
          IF Outcome(last.r) = "Backoff"
          THEN AgentAfter.expected_end_ms = AgentBefore.expected_end_ms
          ELSE /\ AgentAfter.expected_end_ms = EndOf(last.r)
               /\ InRange(AgentAfter.next_attempt_ms, EndOf(last.r)[1])

(* A second end instant replaces the first: the attempt log holds a success *)
(* row whose end_stream_ms is no longer the agent's expected_end_ms.       *)
C10_Witness ==
    /\ StreamActed
    /\ Outcome(last.r) = "ArmSuccess"
    /\ AgentBefore.expected_end_ms # NULL
    /\ AgentBefore.expected_end_ms # AgentAfter.expected_end_ms
    /\ \E n \in 1..Len(db.attempts) :
          /\ db.attempts[n].agent_id = last.agent.id
          /\ db.attempts[n].ok = 1
          /\ db.attempts[n].end_stream_ms = AgentBefore.expected_end_ms

---------------------------------------------------------------------------
(* The attempt log and the counters *)

(* The number of rows of agent aid in the attempt log that satisfy P.      *)
CountRows(d, aid, P(_)) ==
    Cardinality({n \in 1..Len(d.attempts) :
                    d.attempts[n].agent_id = aid /\ P(d.attempts[n])})

RowOk(row) == row.ok = 1
RowFailure(row) == row.ok = 0 /\ row.reason # "already_streaming"

(* A row whose end_stream_ms the scheduler took as an end instant: neither  *)
(* null nor 0.                                                             *)
RowEnd(row) == row.end_stream_ms # NULL /\ row.end_stream_ms[1] # 0
RowArmed(row) == row.ok = 1 /\ RowEnd(row)
RowReSynced(row) == row.reason = "already_streaming" /\ RowEnd(row)
RowBackedOff(row) == ~RowArmed(row) /\ ~RowReSynced(row)

CountsAsStated(d) ==
    \A i \in AgentIds(d) :
        /\ d.agents[i].success_count = CountRows(d, i, RowOk)
        /\ d.agents[i].failure_count = CountRows(d, i, RowFailure)

CountsByOutcome(d) ==
    \A i \in AgentIds(d) :
        /\ d.agents[i].success_count = CountRows(d, i, RowArmed)
        /\ d.agents[i].failure_count = CountRows(d, i, RowBackedOff)

C12_NoCallWhilePaused ==
    StreamActed =>
        /\ last.before.agents[last.agent.id].status = "active"
        /\ db.agents[last.agent.id].status = "active"

(* C13: after a crash during the stream pass, the attempt rows, the agent   *)
(* rows and the usage rows written for the agents processed before it are  *)
(* in the store.                                                           *)
C13_ProcessedAgentsDurable ==
    (last.kind = "crash" /\ last.pass = "stream") =>
        /\ db.attempts = last.before.attempts
        /\ db.agents = last.before.agents
        /\ db.usage_windows = last.before.usage_windows

(* C14: a tick ends only when every due agent has been processed and every *)
(* billing candidate attempted, and with its writes committed, whatever    *)
(* the stream calls and the settlement calls result in.                    *)
C14_TickNeverRaises ==
    [][(pc # "idle" /\ pc' = "idle" /\ last'.kind # "crash") =>
          (due = <<>> /\ candidates = <<>> /\ committed' = db)]_vars

(* An agent that is active and due, in the committed store, and an agent   *)
(* with a row in the attempt log.                                          *)
DueNow(i) == i \in AgentIds(committed) /\ IsDue(committed.agents[i], now)
Attempted(i) ==
    \E n \in 1..Len(committed.attempts) : committed.attempts[n].agent_id = i

(* C15: an agent that is active and due (and stays active) eventually has   *)
(* its stream call made and an attempt row recorded by a tick, when ticks  *)
(* keep running and every call that is started returns or raises.          *)
C15_DueEventuallyActed ==
    \A i \in 1..MaxIds : DueNow(i) ~> Attempted(i)

(* C16: a tick selects the agents that are active and due at its start, in  *)
(* ascending order of next_attempt_ms (null as 0), makes its stream calls  *)
(* for them in that order, one attempt row each, and leaves the stream     *)
(* pass only when each of them has had its call.                           *)
C16_OneCallPerDueAgent ==
    [][/\ (pc = "idle" /\ pc' = "stream") => due' \in list_due_agents(db, now)
       /\ (pc = "stream" /\ last'.kind = "stream") =>
             /\ last'.agent = Head(due)
             /\ due' = Tail(due)
             /\ Len(db'.attempts) = Len(db.attempts) + 1
             /\ db'.attempts[Len(db'.attempts)].agent_id = Head(due).id
       /\ (pc = "stream" /\ pc' # "stream" /\ last'.kind # "crash") => due = <<>>]_vars

(* A tick that runs without the chain epoch. *)
EpochUnknown == pc # "idle" /\ chain_epoch = NULL

(* C17: in a tick where the chain epoch is unknown the stream pass runs     *)
(* over the due agents and records their attempts, no usage row is created *)
(* or changed (also on ArmSuccess), no settlement call is made and no      *)
(* billing-attempt row written; epoch_error is non-null exactly when the   *)
(* Oracle was asked and failed, and chain_epoch is then null.              *)
C17_EpochUnknownTick ==
    /\ [](EpochUnknown =>
             /\ pc = "stream"
             /\ candidates = <<>>
             /\ db.usage_windows = committed.usage_windows
             /\ db.billing_attempts = committed.billing_attempts
             /\ epoch_error # NULL <=> billing_enabled)
    /\ [](epoch_error # NULL => chain_epoch = NULL)
    /\ [](SettleActed => chain_epoch # NULL)
    /\ []((StreamActed /\ chain_epoch = NULL) =>
             /\ db.usage_windows = last.before.usage_windows
             /\ Len(db.attempts) = Len(last.before.attempts) + 1
             /\ db.attempts[Len(db.attempts)].agent_id = last.agent.id)
    /\ [][(pc = "idle" /\ pc' # "idle" /\ chain_epoch' = NULL) =>
             (pc' = "stream" /\ due' \in list_due_agents(db, now))]_vars

(* The Oracle has failed, a stream call has armed an agent, and an unbilled *)
(* usage row of an earlier tick waits in the store.                        *)
C17_Witness ==
    /\ StreamActed
    /\ chain_epoch = NULL
    /\ epoch_error # NULL
    /\ Outcome(last.r) = "ArmSuccess"
    /\ \E k \in UsageKeys(db) : ~db.usage_windows[k].billed

RECURSIVE SumWindows(_, _, _)
SumWindows(d, i, es) ==
    IF es = {} THEN 0
    ELSE LET e == CHOOSE x \in es : TRUE
         IN WindowsOf(d, <<i, e>>) + SumWindows(d, i, es \ {e})

(* The rows of agent i that a commit adds to the attempt log and satisfy P. *)
NewRows(before, after, i, P(_)) ==
    Cardinality({n \in (Len(before.attempts) + 1)..Len(after.attempts) :
                    after.attempts[n].agent_id = i /\ P(after.attempts[n])})

RowAny(row) == TRUE

(* C20: what another connection reads holds every attempt row together     *)
(* with the agent update it caused, and every ArmSuccess update together   *)
(* with its usage increment when the chain epoch was known: the commit of  *)
(* a stream pass publishes, for each agent, its new attempt rows, as many  *)
(* success_count steps as new armed rows, as many usage windows as that    *)
(* (none with the epoch unknown) and a next_attempt_ms after the tick.     *)
C20_VisibleTogether ==
    /\ [](CountsByOutcome(committed))
    /\ [][(pc = "stream" /\ pc' # "stream" /\ committed' # committed) =>
            \A i \in AgentIds(committed') :
                LET armed == NewRows(committed, committed', i, RowArmed)
                IN /\ i \in AgentIds(committed)
                   /\ committed'.agents[i].success_count =
                         committed.agents[i].success_count + armed
                   /\ SumWindows(committed', i, Epochs) =
                         SumWindows(committed, i, Epochs)
                           + (IF chain_epoch # NULL THEN armed ELSE 0)
                   /\ (NewRows(committed, committed', i, RowAny) > 0 =>
                         /\ committed'.agents[i].next_attempt_ms # NULL
                         /\ committed'.agents[i].next_attempt_ms[1] > ts_ms)]_vars

(* A reader finds an agent armed twice in one epoch, with two windows.      *)
C20_Witness ==
    /\ pc = "idle"
    /\ \E i \in AgentIds(committed), e \in Epochs :
          /\ committed.agents[i].success_count = 2
          /\ WindowsOf(committed, <<i, e>>) = 2
          /\ CountRows(committed, i, RowArmed) = 2

(* The ticks in progress: on the first connection, on the handler threads *)
(* and on the scheduler thread of the API server.                          *)
TicksInProgress ==
    (IF pc # "idle" THEN 1 ELSE 0)
      + Cardinality({h \in Handlers : api[h].pc # "idle"})
      + (IF srv.thread = "tick" THEN 1 ELSE 0)

(* C18: at most one tick is in progress against the database at any time,  *)
(* also when POST /tick is served in the process that hosts the scheduler. *)
C18_OneTickAtATime == TicksInProgress <= 1

(* C19: the scheduler thread returns only when it finds the stop signal     *)
(* set between two ticks, and a tick that is in flight when the server     *)
(* stops ends by completing: it is not cut short by an exception, by the   *)
(* close of the scheduler's connection or by the exit of the process.      *)
C19_StopBetweenTicks ==
    /\ [](srv.thread = "returned" => srv.stop)
    /\ [](srv.conn = "closed" => srv.thread \notin {"tick", "killed in tick"})
    /\ [][(srv.stop /\ srv.thread = "tick") => srv'.thread \in {"tick", "loop"}]_vars

---------------------------------------------------------------------------
(* Crash and restart *)

(* The windows on record for agent i are covered by its success rows and by *)
(* its success_count.                                                      *)
WindowsCovered(d) ==
    \A i \in AgentIds(d) :
        /\ SumWindows(d, i, Epochs) <= CountRows(d, i, RowOk)
        /\ SumWindows(d, i, Epochs) <= d.agents[i].success_count

(* C21: in every reachable state, also after a crash at any point of a tick *)
(* and the restart, the sum of windows over an agent's usage rows is at    *)
(* most the number of success rows in its attempt log and at most its      *)
(* success_count.                                                          *)
C21_WindowsCovered == WindowsCovered(committed) /\ WindowsCovered(db)

(* A crash has just undone an arm that was written and not committed, for   *)
(* an agent that has a window from an earlier tick.                        *)
C21_Witness ==
    /\ last.kind = "crash"
    /\ last.pass = "stream"
    /\ \E i \in AgentIds(db) :
          /\ i \in AgentIds(last.before)
          /\ SumWindows(db, i, Epochs) >= 1
          /\ SumWindows(last.before, i, Epochs) = SumWindows(db, i, Epochs) + 1
          /\ CountRows(last.before, i, RowOk) = CountRows(db, i, RowOk) + 1

---------------------------------------------------------------------------
(* The Admin Surface: the CLI commands enroll, pause, resume and remove     *)
(* (main) and the requests POST /enroll, /pause, /resume and /remove       *)
(* (do_POST, _enroll_via_api), each on a connection of its own. last holds *)
(* the command just run: which one, how it was sent, whether the address   *)
(* had a row, the id of its row afterwards, the error the command ended    *)
(* with (NULL when it succeeded) and whether it called the stream service. *)
(* The commands are not counted in admin_ops here.                         *)

MaxAdminAttempts == 1    \* stream attempts on record, in this specification
MaxProbeNow == 50000     \* the latest instant at which a probe gets an end instant

(* The characters [0-9a-z]. *)
AddressChars ==
    {"0", "1", "2", "3", "4", "5", "6", "7", "8", "9",
     "a", "b", "c", "d", "e", "f", "g", "h", "i", "j", "k", "l", "m",
     "n", "o", "p", "q", "r", "s", "t", "u", "v", "w", "x", "y", "z"}

(* _validate_agent_address: re.fullmatch(r"claw1[0-9a-z]+", address) *)
_validate_agent_address(address) ==
    /\ Len(address) >= 6
    /\ SubSeq(address, 1, 5) = <<"c", "l", "a", "w", "1">>
    /\ \A n \in 6..Len(address) : address[n] \in AddressChars

(* What is typed as (address, signature, fee_bps): two requests for one     *)
(* address, an address with a space before it, an address with a capital,  *)
(* an empty signature, a signature that is 0x and no more, and a fee on    *)
(* either side of the range.                                               *)
AddrPadded == <<" ">> \o AddrA
AddrCapital == <<"c", "l", "a", "w", "1", "A">>

AdminInputs ==
    { <<AddrA, <<"0", "x", "a">>, 500>>,
      <<AddrA, <<"b", " ">>, 0>>,
      <<AddrPadded, <<"0", "x", "a">>, 500>>,
      <<AddrCapital, <<"0", "x", "a">>, 500>>,
      <<AddrA, <<>>, 500>>,
      <<AddrA, <<"0", "x">>, 500>>,
      <<AddrA, <<"0", "x", "a">>, -1>>,
      <<AddrA, <<"0", "x", "a">>, 10001>> }

(* The answers of the stream service to the probe made at instant t. *)
ProbeAnswers(t) ==
    {r \in Responses(t) :
        /\ r.body.txt \in {"end", "empty", "Already Streaming", "URLError"}
        /\ r.status_code # 500}

(* cur.rowcount == 0 (set_status), not row (remove_agent) *)
NotFound(d, address) == IdOf(d, address) = NULL

AdminError(text) == Some(text)

(* The command just run, for last; probed: it called the stream service. *)
Command(op, via, address, before, after, error, probed) ==
    [kind |-> "admin", op |-> op, via |-> via, error |-> error,
     existed |-> IdOf(before, address) # NULL, agent |-> IdOf(after, address),
     probed |-> probed]

(* main, command enroll: the check of fee_bps, then enroll_agent. *)
CliEnrollError(address, signature, fee_bps) ==
    IF ~(0 <= fee_bps /\ fee_bps <= 10000)
    THEN AdminError("fee-bps must be between 0 and 10000") ELSE NULL

CliEnroll(address, signature, fee_bps) ==
    LET error == CliEnrollError(address, signature, fee_bps)
    IN  /\ NoOpenWrite
        /\ (error = NULL /\ IdOf(db, Strip(address)) = NULL) => db.seq < MaxIds
        /\ db' = IF error = NULL
                 THEN enroll_agent(db, address, signature, fee_bps, now) ELSE db
        /\ committed' = db'
        /\ last' = Command("enroll", "cli", Strip(address), db, db', error, FALSE)
        /\ UNCHANGED <<now, pc, ts_ms, chain_epoch, epoch_error, due, candidates,
                       billing_enabled, api, srv, admin_ops>>

(* _enroll_via_api, lines 768-773: the three checks. *)
IntakeError(address, signature, fee_bps) ==
    IF ~_validate_agent_address(address) THEN AdminError("Invalid Claws address")
    ELSE IF ~(0 <= fee_bps /\ fee_bps <= 10000)
         THEN AdminError("fee_bps must be between 0 and 10000")
    ELSE IF signature = <<>> THEN AdminError("Missing stream signature")
    ELSE NULL

(* _enroll_via_api, line 790: the probe's answer r is refused. *)
ProbeRefused(r) ==
    ~r.ok /\ ~(Reason(r) = "already_streaming"
                 /\ EndTruthy(_extract_end_stream_ms(r.parsed)))

(* _enroll_via_api, lines 805-818: with an end instant from the probe, the   *)
(* UPDATE of expected_end_ms, next_attempt_ms, retry_step and last_error.  *)
ApplyProbe(d, address, end, jitter_ms) ==
    LET found == IdOf(d, address)
    IN IF ~EndTruthy(end) \/ found = NULL THEN d
       ELSE [d EXCEPT !.agents[found[1]] =
                [@ EXCEPT !.expected_end_ms = end,
                          !.next_attempt_ms =
                              Some(_next_planned_attempt(end[1], lead_seconds, jitter_ms)),
                          !.retry_step = 0,
                          !.last_error = NULL]]

(* _enroll_via_api: the error it raises (NULL: none) and the store it       *)
(* leaves, with the probe (when probing) answered by r.                    *)
EnrollViaApiError(probing, address, signature, fee_bps, r) ==
    LET error == IntakeError(address, signature, fee_bps)
    IN IF error # NULL THEN error
       ELSE IF probing /\ ProbeRefused(r)
            THEN AdminError("Stream signature probe failed") ELSE NULL

_enroll_via_api(d, probing, address, signature, fee_bps, r, jitter_ms, ts) ==
    IF EnrollViaApiError(probing, address, signature, fee_bps, r) # NULL THEN d
    ELSE ApplyProbe(enroll_agent(d, address, signature, fee_bps, ts), address,
                    IF probing THEN _extract_end_stream_ms(r.parsed) ELSE NULL,
                    jitter_ms)

(* random.randint is called: the probe was made, was accepted and carried   *)
(* an end instant.                                                         *)
ProbeDraws(probing, address, signature, fee_bps, r) ==
    /\ probing
    /\ EnrollViaApiError(probing, address, signature, fee_bps, r) = NULL
    /\ EndTruthy(_extract_end_stream_ms(r.parsed))

(* POST /enroll: address and signature stripped, then _enroll_via_api with  *)
(* cfg.intake_probe_stream = probing.                                      *)
PostEnroll(probing, address, signature, fee_bps, r, jitter_ms) ==
    LET a == Strip(address)
        sig == Strip(signature)
        error == EnrollViaApiError(probing, a, sig, fee_bps, r)
    IN  /\ NoOpenWrite
        /\ (error = NULL /\ IdOf(db, a) = NULL) => db.seq < MaxIds
        /\ ~ProbeDraws(probing, a, sig, fee_bps, r) => jitter_ms = 0
        /\ ProbeDraws(probing, a, sig, fee_bps, r) => now <= MaxProbeNow
        /\ db' = _enroll_via_api(db, probing, a, sig, fee_bps, r, jitter_ms, now)
        /\ committed' = db'
        /\ last' = Command("enroll", "http", a, db, db', error,
                           probing /\ IntakeError(a, sig, fee_bps) = NULL)
        /\ UNCHANGED <<now, pc, ts_ms, chain_epoch, epoch_error, due, candidates,
                       billing_enabled, api, srv, admin_ops>>

(* POST /enroll whose probe raises out of _post_stream: the request is     *)
(* answered 400 and the store is as before.                                *)
PostEnrollRaise(address, signature, fee_bps) ==
    LET a == Strip(address)
        sig == Strip(signature)
    IN  /\ IntakeError(a, sig, fee_bps) = NULL
        /\ last' = Command("enroll", "http", a, db, db, AdminError("raised"), TRUE)
        /\ UNCHANGED <<db, committed, now, pc, ts_ms, chain_epoch, epoch_error, due,
                       candidates, billing_enabled, api, srv, admin_ops>>

(* pause / resume, CLI (via = "cli") or POST (via = "http", the address      *)
(* stripped): set_status, which raises after its commit when no row was    *)
(* updated.                                                                *)
SetStatusCommand(via, address, status) ==
    LET a == IF via = "http" THEN Strip(address) ELSE address
    IN  /\ NoOpenWrite
        /\ db' = set_status(db, a, status, now)
        /\ committed' = db'
        /\ last' = Command(status, via, a, db, db',
                           IF NotFound(db, a)
                           THEN AdminError("Agent not found") ELSE NULL, FALSE)
        /\ UNCHANGED <<now, pc, ts_ms, chain_epoch, epoch_error, due, candidates,
                       billing_enabled, api, srv, admin_ops>>

(* remove, CLI or POST: remove_agent, which raises before any DELETE when    *)
(* the address has no row.                                                 *)
RemoveCommand(via, address) ==
    LET a == IF via = "http" THEN Strip(address) ELSE address
    IN  /\ NoOpenWrite
        /\ db' = remove_agent(db, a)
        /\ committed' = db'
        /\ last' = Command("remove", via, a, db, db',
                           IF NotFound(db, a)
                           THEN AdminError("Agent not found") ELSE NULL, FALSE)
        /\ UNCHANGED <<now, pc, ts_ms, chain_epoch, epoch_error, due, candidates,
                       billing_enabled, api, srv, admin_ops>>

(* The commands beside the ticks: two requests for one address and one for *)
(* another, and an address typed with a space before it.                  *)
CommandInputs ==
    { <<AddrA, <<"0", "x", "a">>, 500>>,
      <<AddrA, <<"b", " ">>, 0>>,
      <<AddrB, <<"b">>, 10000>> }

(* How pause, resume and remove are sent, and for which address. *)
CommandTargets ==
    { <<"cli", AddrA>>, <<"cli", AddrB>>, <<"cli", AddrPadded>>, <<"http", AddrPadded>> }

(* The answers of the stream service beside the commands: one that arms    *)
(* and one that fails.                                                     *)
CommandAnswers(t) == {r \in Responses(t) : r.body.txt \in {"end", "URLError"}}

NextAdmin ==
    \/ \E e \in CommandInputs : CliEnroll(e[1], e[2], e[3])
    \/ \E c \in CommandTargets, st \in {"paused", "active"} :
          SetStatusCommand(c[1], c[2], st)
    \/ \E c \in CommandTargets : RemoveCommand(c[1], c[2])
    \/ AdvanceClock
    \/ TickStart(MaxAdminAttempts)
    \/ \E r \in CommandAnswers(now) : StreamStep(r, 0)
    \/ StreamRaise
    \/ StreamCommit
    \/ \E p \in {q \in Settlements : q.returncode < 2 /\ q.stdout.len <= BodyKeep} :
          BillStep(p)
    \/ BillRaise
    \/ BillCommit

SpecAdmin == Init /\ [][NextAdmin]_vars

(* Intake: the two ways to enroll, no tick running. *)
NextIntake ==
    \/ \E e \in AdminInputs : CliEnroll(e[1], e[2], e[3])
    \/ \E probing \in BOOLEAN, e \in AdminInputs, r \in ProbeAnswers(now),
          j \in JitterDraws(jitter_seconds) :
          PostEnroll(probing, e[1], e[2], e[3], r, j)
    \/ \E e \in AdminInputs : PostEnrollRaise(e[1], e[2], e[3])
    \/ \E c \in CommandTargets : SetStatusCommand(c[1], c[2], "paused")
    \/ AdvanceClock

SpecIntake == Init /\ [][NextIntake]_vars

---------------------------------------------------------------------------
(* The admin commands *)

(* Address t has a row in store d. *)
Enrolled(d, t) == \E i \in AgentIds(d) : d.agents[i].address = t

(* The row of address t. *)
RowOf(d, t) == CHOOSE i \in AgentIds(d) : d.agents[i].address = t

(* A signature as typed, without the white space around it and without a    *)
(* leading 0x.                                                             *)
Without0x(sig) ==
    LET s == Strip(sig)
    IN IF Len(s) >= 2 /\ SubSeq(s, 1, 2) = <<"0", "x">>
       THEN [n \in 1..(Len(s) - 2) |-> s[n + 2]] ELSE s

(* Store after is store before but for row i, which is active and has the   *)
(* signature and the fee of request e, and is otherwise as it was.         *)
OnlyReEnrolled(before, after, i, e) ==
    /\ AgentIds(after) = AgentIds(before)
    /\ after.agents[i] = [before.agents[i] EXCEPT !.status = "active",
                                                  !.stream_signature = Without0x(e[2]),
                                                  !.fee_bps = e[3]]
    /\ \A j \in AgentIds(before) \ {i} : after.agents[j] = before.agents[j]
    /\ after.seq = before.seq
    /\ after.attempts = before.attempts
    /\ after.usage_windows = before.usage_windows
    /\ after.billing_attempts = before.billing_attempts

(* Row i of store d with status st. *)
WithStatus(d, i, st) == [d EXCEPT !.agents[i].status = st]

(* Enroll e1, pause, resume, enroll e2, from store d. *)
EnrollPauseResumeEnroll(d, e1, e2) ==
    enroll_agent(
        set_status(
            set_status(enroll_agent(d, e1[1], e1[2], e1[3], now), e1[1], "paused", now),
            e1[1], "active", now),
        e2[1], e2[2], e2[3], now)

C23_NotFoundOrStatusOnly ==
    [][/\ \A c \in CommandTargets, st \in {"paused", "active"} :
            SetStatusCommand(c[1], c[2], st) =>
                LET t == IF c[1] = "http" THEN Strip(c[2]) ELSE c[2]
                IN IF Enrolled(db, t)
                   THEN /\ last'.error = NULL
                        /\ db' = WithStatus(db, RowOf(db, t), st)
                        /\ committed' = db'
                   ELSE /\ last'.error = AdminError("Agent not found")
                        /\ db' = db
                        /\ committed' = committed
       /\ \A c \in CommandTargets :
            (RemoveCommand(c[1], c[2])
               /\ ~Enrolled(db, IF c[1] = "http" THEN Strip(c[2]) ELSE c[2])) =>
                /\ last'.error = AdminError("Agent not found")
                /\ db' = db
                /\ committed' = committed]_vars

(* A remove of an address that has no row has just failed, with the rows of *)
(* another address in the store.                                           *)
C23_Witness ==
    /\ last.kind = "admin"
    /\ last.op = "remove"
    /\ ~last.existed
    /\ last.error = AdminError("Agent not found")
    /\ AgentIds(db) # {}
    /\ Len(db.attempts) >= 1

---------------------------------------------------------------------------
(* Rows and their agents *)

(* Every attempt, usage and billing-attempt row of store d refers to an     *)
(* agent row of d.                                                         *)
RowsRefer(d) ==
    /\ \A n \in 1..Len(d.attempts) : d.attempts[n].agent_id \in AgentIds(d)
    /\ \A k \in UsageKeys(d) : k[1] \in AgentIds(d)
    /\ \A n \in 1..Len(d.billing_attempts) :
          d.billing_attempts[n].agent_id \in AgentIds(d)

(* C24: in every reachable state every attempt, usage and billing-attempt   *)
(* row refers to an existing agent, in the committed store and in the      *)
(* scheduler's view: a remove takes the agent and all its rows in one      *)
(* commit, also when it commits after a tick has selected the agent as due *)
(* or as a billing candidate.                                              *)
C24_RowsReferToAgents == RowsRefer(committed) /\ RowsRefer(db)

(* The billing pass of a tick is about to settle a usage row of an agent    *)
(* that has been removed since the pass selected it.                       *)
C24_Witness ==
    /\ pc = "bill"
    /\ candidates # <<>>
    /\ Head(candidates).agent_id \notin AgentIds(db)
    /\ AgentIds(db) # {}

---------------------------------------------------------------------------
(* Intake *)

(* The probe's answer is a success with an end instant, or a 403 "already   *)
(* streaming" with one.                                                    *)
ProbeProves(r) == OkWithEnd(r) \/ AlreadyWithEnd(r)

(* C25: with the intake probe on, POST /enroll stores the agent only when   *)
(* the probe's answer is a success with an end_stream_ms or an already-    *)
(* streaming 403 with one; on every other answer (a 2xx without            *)
(* end_stream_ms among them) the request is rejected and the store is      *)
(* unchanged. When it is accepted, expected_end_ms is the probe's          *)
(* end_stream_ms and next_attempt_ms lies in [end - lead, end - lead +     *)
(* jitter].                                                                *)
C25_ProbeGate ==
    [][\A e \in AdminInputs, r \in ProbeAnswers(now), j \in JitterDraws(jitter_seconds) :
          PostEnroll(TRUE, e[1], e[2], e[3], r, j) =>
              /\ ~ProbeProves(r) => (db' = db /\ last'.error # NULL)
              /\ last'.error = NULL =>
                    /\ ProbeProves(r)
                    /\ last'.agent # NULL
                    /\ db'.agents[last'.agent[1]].expected_end_ms = EndOf(r)
                    /\ InRange(db'.agents[last'.agent[1]].next_attempt_ms, EndOf(r)[1])]_vars

(* A request is as the Admin Surface wants it: the address matches           *)
(* claw1[0-9a-z]+ in full, fee_bps is in [0, 10000], the signature is not   *)
(* empty.                                                                  *)
ValidRequest(address, signature, fee_bps) ==
    /\ _validate_agent_address(address)
    /\ 0 <= fee_bps /\ fee_bps <= 10000
    /\ signature # <<>>

WellFormedAgent(a) == ValidRequest(a.address, a.stream_signature, a.fee_bps)

(* C26: CLI enroll and POST /enroll reject a malformed address, a fee_bps   *)
(* outside [0, 10000] and an empty signature before any change of the      *)
(* store and before any probe; every stored agent has a well-formed        *)
(* address, a non-empty signature and a fee_bps in [0, 10000].             *)
C26_EnrollValidates ==
    /\ [](\A i \in AgentIds(db) : WellFormedAgent(db.agents[i]))
    /\ [][\A e \in AdminInputs :
            (CliEnroll(e[1], e[2], e[3]) /\ ~ValidRequest(e[1], e[2], e[3])) =>
                (db' = db /\ last'.error # NULL)]_vars
    /\ [][\A probing \in BOOLEAN, e \in AdminInputs, r \in ProbeAnswers(now),
            j \in JitterDraws(jitter_seconds) :
            (PostEnroll(probing, e[1], e[2], e[3], r, j)
               /\ ~ValidRequest(Strip(e[1]), Strip(e[2]), e[3])) =>
                (db' = db /\ last'.error # NULL /\ ~last'.probed)]_vars

---------------------------------------------------------------------------
(* Two ticks from one state *)

(* The stream pass of a tick as one function: the loop of                   *)
(* process_due_agents over rows, the stream call for agent i answered by   *)
(* answers[i] and random.randint drawing draws[i].                         *)
RECURSIVE StreamPass(_, _, _, _)
StreamPass(d, rows, answers, draws) ==
    IF rows = <<>> THEN d
    ELSE StreamPass(ProcessAgent(d, Head(rows), answers[Head(rows).id],
                                 draws[Head(rows).id], ts_ms, chain_epoch, now),
                    Tail(rows), answers, draws)

(* The ids of rows, and the draws a pass with these answers can make (none  *)
(* on a back-off).                                                         *)
IdsOf(rows) == {rows[n].id : n \in 1..Len(rows)}
DrawsFor(rows, answers) ==
    {j \in [IdsOf(rows) -> JitterDraws(jitter_seconds)] :
        \A i \in IdsOf(rows) : Outcome(answers[i]) = "Backoff" => j[i] = 0}

(* Two stores that are equal but for next_attempt_ms, which differs by at   *)
(* most the jitter.                                                        *)
Unscheduled(a) == [a EXCEPT !.next_attempt_ms = NULL]
SameButJitter(s1, s2) ==
    /\ s1.attempts = s2.attempts
    /\ s1.usage_windows = s2.usage_windows
    /\ s1.billing_attempts = s2.billing_attempts
    /\ s1.seq = s2.seq
    /\ AgentIds(s1) = AgentIds(s2)
    /\ \A i \in AgentIds(s1) :
          /\ Unscheduled(s1.agents[i]) = Unscheduled(s2.agents[i])
          /\ (s1.agents[i].next_attempt_ms = NULL) = (s2.agents[i].next_attempt_ms = NULL)
          /\ s1.agents[i].next_attempt_ms # NULL =>
                /\ s1.agents[i].next_attempt_ms[1] - s2.agents[i].next_attempt_ms[1]
                      <= jitter_seconds * 1000
                /\ s2.agents[i].next_attempt_ms[1] - s1.agents[i].next_attempt_ms[1]
                      <= jitter_seconds * 1000

(* A tick has read its clock, its epoch and its due agents, and the store   *)
(* is as it read it.                                                       *)
TickStarted ==
    /\ pc = "stream"
    /\ db = committed
    /\ last = NoStep
    /\ due \in list_due_agents(db, ts_ms)

---------------------------------------------------------------------------
(* The billing pass *)

(* The usage rows of store d that are unbilled, of an epoch before epoch    *)
(* and with windows.                                                       *)
Billable(d, epoch) ==
    {k \in UsageKeys(d) :
        ~d.usage_windows[k].billed /\ k[2] < epoch /\ d.usage_windows[k].windows > 0}

(* rows lists the keys of S once each, in ascending (epoch, agent_id)       *)
(* order, each with the windows store d holds for it.                      *)
ListsInOrder(rows, S, d) ==
    /\ Len(rows) = Cardinality(S)
    /\ \A n \in 1..Len(rows) :
          /\ <<rows[n].agent_id, rows[n].epoch>> \in S
          /\ rows[n].windows = d.usage_windows[<<rows[n].agent_id, rows[n].epoch>>].windows
    /\ \A m, n \in 1..Len(rows) :
          m < n => \/ rows[m].epoch < rows[n].epoch
                   \/ (rows[m].epoch = rows[n].epoch /\ rows[m].agent_id < rows[n].agent_id)

(* C28: in a tick with billing enabled and the chain epoch known, the       *)
(* billing pass makes exactly one settlement call and adds exactly one     *)
(* billing-attempt row for each usage row that at the start of the pass is *)
(* unbilled, of an epoch before chain_epoch and with windows > 0, whatever *)
(* the agent's status, in ascending (epoch, agent_id) order and with the   *)
(* row's windows; it makes none for any other row.                         *)
C28_OneSettlementPerCandidate ==
    [][/\ (pc = "stream" /\ pc' = "idle" /\ due = <<>> /\ last'.kind # "crash") =>
             ~(billing_enabled /\ chain_epoch # NULL)
       /\ (pc = "stream" /\ pc' = "bill") =>
             /\ billing_enabled /\ chain_epoch # NULL
             /\ ListsInOrder(candidates', Billable(db, chain_epoch[1]), db)
       /\ (pc = "bill" /\ last'.kind = "settle") =>
             /\ last'.row = Head(candidates)
             /\ candidates' = Tail(candidates)
             /\ Len(db'.billing_attempts) = Len(db.billing_attempts) + 1
             /\ LET b == db'.billing_attempts[Len(db'.billing_attempts)]
                IN /\ b.agent_id = Head(candidates).agent_id
                   /\ b.epoch = Head(candidates).epoch
                   /\ b.windows = Head(candidates).windows
       /\ (Len(db'.billing_attempts) > Len(db.billing_attempts)) =>
             (pc = "bill" /\ last'.kind = "settle")
       /\ (pc = "bill" /\ pc' # "bill" /\ last'.kind # "crash") =>
             candidates = <<>>]_vars

---------------------------------------------------------------------------
(* The end instant of a response: _extract_end_stream_ms and the            *)
(* classification of lines 404-438 applied to responses of every shape.    *)

(* The values a field of the response object can hold. *)
FieldValues == {Absent, JInt(0), JInt(5), JInt(7), JStr, JBool(TRUE)}

(* The responses: every pair of field values, and no object at all, in a    *)
(* 200, in a 403 "already streaming", in a 403 without that text and in a  *)
(* 500.                                                                    *)
ExtractInputs ==
    LET objects == {Obj(a, b) : a, b \in FieldValues} \cup {NULL}
    IN {Resp(TRUE, 200, Body("ok", 30, FALSE), o) : o \in objects}
         \cup {Resp(FALSE, 403, Body("Already Streaming", 60, TRUE), o) : o \in objects}
         \cup {Resp(FALSE, 403, Body("forbidden", 30, FALSE), o) : o \in objects}
         \cup {Resp(FALSE, 500, Body("error", 30, FALSE), o) : o \in objects}

InitExtract ==
    /\ db = EmptyDb
    /\ committed = EmptyDb
    /\ now = 0
    /\ pc = "idle"
    /\ ts_ms = 0
    /\ chain_epoch = NULL
    /\ epoch_error = NULL
    /\ due = <<>>
    /\ candidates = <<>>
    /\ billing_enabled = FALSE
    /\ last \in {[kind |-> "response", r |-> r] : r \in ExtractInputs}
    /\ admin_ops = 0
    /\ api = [h \in Handlers |-> ApiIdle]
    /\ srv = NotServing

(* Lines 404-438 on one response: the end instant extracted and the outcome. *)
Classify ==
    /\ last.kind = "response"
    /\ last' = [kind |-> "classified", r |-> last.r,
                end_stream_ms |-> _extract_end_stream_ms(last.r.parsed),
                outcome |-> Outcome(last.r)]
    /\ UNCHANGED <<db, committed, now, pc, ts_ms, chain_epoch, epoch_error, due,
                   candidates, billing_enabled, admin_ops, api, srv>>

SpecExtract == InitExtract /\ [][Classify]_vars

(* The value of the first of end_stream, can_stream_again_at that is        *)
(* present and holds an integer; null when neither does.                   *)
FirstInteger(parsed) ==
    IF parsed = NULL THEN NULL
    ELSE IF parsed[1].end_stream.kind = "int" THEN Some(parsed[1].end_stream.v)
    ELSE IF parsed[1].can_stream_again_at.kind = "int"
         THEN Some(parsed[1].can_stream_again_at.v)
    ELSE NULL

(* C29: the end_stream_ms extracted from a parsed response is the value of  *)
(* the first of end_stream, can_stream_again_at that is present and holds  *)
(* an integer, and null when neither holds one; the outcome is ArmSuccess  *)
(* exactly when the response is ok and this value is non-null, and ReSync  *)
(* exactly when it is a 403 "already streaming" and this value is non-null.*)
C29_FirstIntegerField ==
    last.kind = "classified" =>
        /\ last.end_stream_ms = FirstInteger(last.r.parsed)
        /\ last.outcome = "ArmSuccess" <=> (last.r.ok /\ last.end_stream_ms # NULL)
        /\ last.outcome = "ReSync" <=>
              (~last.r.ok /\ last.r.status_code = 403 /\ last.r.body.already
                 /\ last.end_stream_ms # NULL)

---------------------------------------------------------------------------
(* The length of the persisted texts *)

(* The length of a nullable text; 0 when it is NULL. *)
LenOf(x) == IF x = NULL THEN 0 ELSE x[1].len

AgentErrorsKept(d) == \A id \in AgentIds(d) : LenOf(d.agents[id].last_error) <= ErrorKeep
UsageErrorsKept(d) == \A k \in UsageKeys(d) : LenOf(d.usage_windows[k].last_error) <= ErrorKeep
BodiesKept(d) == \A i \in DOMAIN d.attempts : d.attempts[i].response_body.len <= BodyKeep
OutputsKept(d) ==
    \A i \in DOMAIN d.billing_attempts :
        /\ d.billing_attempts[i].stdout.len <= BodyKeep
        /\ d.billing_attempts[i].stderr.len <= BodyKeep

(* C30: in every reachable state every persisted last_error, on agent rows  *)
(* and on usage rows, has length at most 300, and every persisted attempt  *)
(* response_body and billing-attempt stdout and stderr has length at most  *)
(* 4000, whatever the length of the response or of the tool's output.      *)
C30_TextsTruncated ==
    \A d \in {db, committed} :
        AgentErrorsKept(d) /\ UsageErrorsKept(d) /\ BodiesKept(d) /\ OutputsKept(d)

---------------------------------------------------------------------------
(* Settlement calls and billed rows *)

(* The usage row of candidate row is marked billed in the committed store. *)
MarkedBilled(row) ==
    LET k == <<row.agent_id, row.epoch>>
    IN k \in UsageKeys(committed) /\ committed.usage_windows[k].billed

(* A turn of the billing loop is taken on the first connection, and on     *)
(* handler thread h: the settlement call for the head candidate is made    *)
(* and its result written.                                                 *)
BillTurnTaken ==
    pc = "bill" /\ candidates # <<>> /\ pc' = "bill" /\ candidates' = Tail(candidates)

ApiBillTurnTaken(h) ==
    /\ api[h].pc = "bill" /\ api[h].candidates # <<>>
    /\ api'[h].pc = "bill" /\ api'[h].candidates = Tail(api[h].candidates)

(* C31: once a usage row (agent_id, epoch) has been marked billed, no       *)
(* settlement call is started for that agent and epoch again, also when    *)
(* two ticks (a forced tick of POST /tick and another tick) have listed    *)
(* their billing candidates from the same unbilled state.                  *)
C31_NoCallOnceBilled ==
    [][/\ BillTurnTaken => ~MarkedBilled(Head(candidates))
       /\ \A h \in Handlers : ApiBillTurnTaken(h) => ~MarkedBilled(Head(api[h].candidates))]_vars

---------------------------------------------------------------------------
(* An end instant inside the lead: the stream service answers with an end   *)
(* that is less than lead_seconds away, and the loop of `run` waits        *)
(* poll_interval_seconds between two ticks.                                *)

poll_interval_seconds == 20
ShortWindow == 300000
MaxNearNow == 100000
MaxNearAttempts == 3

(* The answers of the stream service to a call made at instant t: an end   *)
(* Window or ShortWindow ms after the call, an end of 0, a failure.        *)
NearResponses(t) ==
    { Resp(TRUE, 200, Body("end", 24, FALSE), Obj(JInt(t + Window), Absent)),
      Resp(TRUE, 200, Body("end", 24, FALSE), Obj(JInt(t + ShortWindow), Absent)),
      Resp(TRUE, 200, Body("zero", 26, FALSE), Obj(Absent, JInt(0))),
      Resp(FALSE, 403, Body("Already Streaming", 60, TRUE), Obj(Absent, JInt(t + Window))),
      Resp(FALSE, 403, Body("Already Streaming", 60, TRUE), Obj(Absent, JInt(t + ShortWindow))),
      Resp(FALSE, 0, Body("URLError", 301, FALSE), NULL) }

(* time.sleep(cfg.poll_interval_seconds), line 1061 (stop.wait, line 986). *)
PollWait ==
    /\ pc = "idle"
    /\ now + poll_interval_seconds * 1000 <= MaxNearNow
    /\ now' = now + poll_interval_seconds * 1000
    /\ last' = NoStep
    /\ UNCHANGED <<db, committed, pc, ts_ms, chain_epoch, epoch_error, due,
                   candidates, billing_enabled, api, srv, admin_ops>>

(* One agent, billing disabled, the clock moved by the poll interval and   *)
(* to the next planned attempt.                                            *)
NextNear ==
    \/ AdvanceClock
    \/ PollWait
    \/ \E e \in EnrollInputs : e[1] = AddrA /\ Enroll(e[1], e[2], e[3])
    \/ TickStart(MaxNearAttempts)
    \/ \E r \in NearResponses(now), j \in JitterDraws(jitter_seconds) : StreamStep(r, j)
    \/ StreamRaise
    \/ StreamCommit

SpecNear == InitLadder /\ [][NextNear]_vars

---------------------------------------------------------------------------
(* The next attempt and the tick's timestamp *)

(* Every agent listed by the tick in progress was due at its timestamp.    *)
ListedWereDue == pc = "stream" => \A n \in DOMAIN due : IsDue(due[n], ts_ms)

(* C32 as stated: every stream outcome moves the agent's next_attempt_ms   *)
(* strictly past the tick's timestamp (Backoff by at least 30 s,           *)
(* ArmSuccess and ReSync to end - lead*1000 + jitter), so the agent is not *)
(* due any more with respect to that timestamp.                            *)
C32_AsStated ==
    /\ StreamActed =>
          /\ AgentAfter.next_attempt_ms # NULL
          /\ AgentAfter.next_attempt_ms[1] > ts_ms
          /\ ~IsDue(AgentAfter, ts_ms)
    /\ ListedWereDue

(* C32, amended: a stream call that returns is followed by Backoff, which  *)
(* sets next_attempt_ms = tick timestamp + d(retry_step), at least 30 s    *)
(* past the timestamp, or by ArmSuccess or ReSync, which set it to         *)
(* end - lead*1000 + jitter: past the timestamp exactly when               *)
(* end + jitter > timestamp + lead*1000, and otherwise the agent is still  *)
(* due with respect to that timestamp. The agent is not attempted again in *)
(* the same tick, and a tick attempts only agents that are due at its      *)
(* timestamp.                                                              *)
C32_NextAttemptPlanned ==
    /\ StreamActed =>
          /\ IF Outcome(last.r) = "Backoff"
             THEN /\ AgentAfter.next_attempt_ms =
                        Some(ts_ms + LadderDelay(AgentBefore.retry_step) * 1000)
                  /\ AgentAfter.next_attempt_ms[1] >= ts_ms + 30 * 1000
                  /\ ~IsDue(AgentAfter, ts_ms)
             ELSE /\ AgentAfter.next_attempt_ms =
                        Some(EndOf(last.r)[1] - lead_seconds * 1000 + last.jitter_ms)
                  /\ IsDue(AgentAfter, ts_ms) <=>
                        (/\ AgentAfter.status = "active"
                         /\ EndOf(last.r)[1] + last.jitter_ms <= ts_ms + lead_seconds * 1000)
          /\ \A n \in DOMAIN due : due[n].id # last.agent.id
    /\ ListedWereDue

(* A tick re-attempts an agent that the tick before left due: its end was  *)
(* inside the lead, the clock has moved by one poll interval only, and the *)
(* answer leaves it due again.                                             *)
C32_Witness ==
    /\ StreamActed
    /\ Outcome(last.r) # "Backoff"
    /\ IsDue(AgentAfter, ts_ms)
    /\ ts_ms = poll_interval_seconds * 1000
    /\ AgentBefore.expected_end_ms = Some(ShortWindow)
    /\ AgentBefore.next_attempt_ms[1] < 0

====
